---- MODULE Spec2Model ----
(***************************************************************************)
(* Model of the 1-D reactive cluster-transport core of xolotl:             *)
(*   - the event controller of Monitor1D.cpp (eventFunction1D,            *)
(*     postEventFunction1D, computeHeliumRetention1D), run by every MPI    *)
(*     process of the communicator on its slab of the grid;                *)
(*   - the residual loop of PetscSolver1DHandler.cpp (updateConcentration).*)
(*                                                                         *)
(* Units.  The code computes in double precision; the model computes in    *)
(* integers of fixed units, chosen so that every product and comparison    *)
(* the code makes is exact on the inputs enumerated:                       *)
(*   lengths          0.1 nm                                               *)
(*   concentrations   0.1 atoms/nm^3   (62.8 atoms/nm^3 is 628)            *)
(*   nInterstitial    0.01 atoms/nm^2  (concentration * length)            *)
(*   fluxes           0.01 atoms/nm^2 per unit of time                     *)
(* A comparison with a quotient (n < -threshold / 10.0) is made by cross   *)
(* multiplication, never by integer division.                              *)
(***************************************************************************)
EXTENDS Integers, Sequences, FiniteSets, TLC

(***************************************************************************)
(* Bounds of the model.                                                    *)
(***************************************************************************)
\* number of MPI processes of the communicator
NumProcs == 2
\* number of integrator steps taken in one integration loop
MaxSteps == 2
\* iterations after which a surface loop of postEventFunction1D is taken
\* to run forever (no terminating run on the inputs comes near it)
LoopFuel == 8

Procs == 0 .. (NumProcs - 1)

(***************************************************************************)
(* The cluster network: dense ids 0 .. DOF-1 (the code's getId() - 1).     *)
(* He_1, D_1, T_1, V_1, V_2, I_1, I_2, three HeV clusters, one PSI super   *)
(* cluster (He in 3..4, V in 1..2) whose id is its zeroth moment and which *)
(* carries four more moment ids (He, D, T, V axes), and He_2.              *)
(***************************************************************************)
Network ==
    << [type |-> "He",       size |-> 1, he |-> 1, v |-> 0],
       [type |-> "D",        size |-> 1, he |-> 0, v |-> 0],
       [type |-> "T",        size |-> 1, he |-> 0, v |-> 0],
       [type |-> "V",        size |-> 1, he |-> 0, v |-> 1],
       [type |-> "V",        size |-> 2, he |-> 0, v |-> 2],
       [type |-> "I",        size |-> 1, he |-> 0, v |-> 0],
       [type |-> "I",        size |-> 2, he |-> 0, v |-> 0],
       [type |-> "PSIMixed", size |-> 2, he |-> 1, v |-> 1],
       [type |-> "PSIMixed", size |-> 3, he |-> 2, v |-> 1],
       [type |-> "PSIMixed", size |-> 3, he |-> 1, v |-> 2],
       [type |-> "PSISuper", size |-> 0, he |-> 0, v |-> 0],
       [type |-> "He",       size |-> 2, he |-> 2, v |-> 0] >>

\* ids of the clusters (0-based, the index the code uses into a grid point)
ClusterIds == 0 .. (Len(Network) - 1)
Cluster(id) == Network[id + 1]
\* network.getAll(type)
GetAll(type) == {id \in ClusterIds : Cluster(id).type = type}
\* network.get(Species::V, n): the id of V_n
GetV(n) == CHOOSE id \in GetAll("V") : Cluster(id).size = n

\* the super cluster's bounds in He and V, and its moment ids
SuperHeBounds == {3, 4}
SuperVBounds == {1, 2}
MomentId(id, axis) == Len(Network) + axis
MomentIds(id) == {MomentId(id, axis) : axis \in 0 .. 3}
\* network.getDOF(): clusters and moments
DOF == Len(Network) + 4
Dofs == 0 .. (DOF - 1)

\* diffusion coefficient of a cluster (getDiffusionCoefficient), per unit
DiffusionCoefficient(id) == IF Cluster(id).type = "I" THEN 1 ELSE
                            IF Cluster(id).type \in {"He", "D", "T"} THEN 1 ELSE 0

(***************************************************************************)
(* Concentrations of one grid point, and the solutions the integrator may  *)
(* hand to the controller.                                                 *)
(***************************************************************************)
ZeroVec == [k \in Dofs |-> 0]
\* interstitials near the surface
IRichVec == [k \in Dofs |-> IF k = 5 THEN 1400 ELSE IF k = 6 THEN 300 ELSE 0]
\* a helium bubble: He, D, T, HeV and super-cluster populations
HeRichVec == [k \in Dofs |->
                CASE k = 0 -> 400 [] k = 1 -> 8 [] k = 2 -> 4
                  [] k = 3 -> 2 [] k = 4 -> 1
                  [] k = 5 -> 1400 [] k = 6 -> 300
                  [] k = 7 -> 10 [] k = 8 -> 6 [] k = 9 -> 5
                  [] k = 10 -> 3 [] k = 11 -> 2 [] k = 12 -> 1
                  [] k = 13 -> 0 [] k = 14 -> 0 [] k = 15 -> 1]
\* a little helium: no bubble large enough to burst for certain
HeLeanVec == [k \in Dofs |-> IF k = 0 THEN 12 ELSE IF k = 7 THEN 4 ELSE 0]

(***************************************************************************)
(* Grids: grid[0 .. Mx+1], strictly increasing; grid[xi+1] is the position *)
(* of grid point xi, grid[0] and grid[Mx+1] bound the ghost cells.         *)
(***************************************************************************)
ZeroBased(s) == [i \in 0 .. (Len(s) - 1) |-> s[i + 1]]
GridChoices == { ZeroBased(<<0, 1, 2, 3, 4, 5, 6>>),
                 ZeroBased(<<0, 1, 2, 4, 6, 8, 10>>) }
GridSize(g) == Cardinality(DOMAIN g)
\* the number of grid points Mx of the distributed array
MxOf(g) == GridSize(g) - 2

(***************************************************************************)
(* Program state.  Every process holds its own copy of the file-scope      *)
(* variables of Monitor1D.cpp and of the solver handler's fields; the      *)
(* solution vector is distributed, each process writing the rows it owns.  *)
(***************************************************************************)
VARIABLES
    grid,               \* solverHandler.getXGrid()
    surfacePosition,    \* solverHandler.getSurfacePosition()
    initialVConc,       \* solverHandler.getInitialVConc()
    movingSurface,      \* solverHandler.moveSurface()
    bubbleBursting,     \* solverHandler.burstBubbles()
    rightOffset,        \* solverHandler.getRightOffset()
    sputteringYield1D,  \* file-scope sputteringYield1D
    xs, xm,             \* DMDAGetCorners of each process
    solution,           \* the distributed solution vector, [xi][dof]
    time,               \* the integrator's time
    tsNumber,           \* the integrator's step number
    previousTime,       \* file-scope previousTime, per process
    nInterstitial1D, previousIFlux1D,          \* per process
    nHelium1D, previousHeFlux1D,               \* per process
    nDeuterium1D, previousDFlux1D,             \* per process
    nTritium1D, previousTFlux1D,               \* per process
    fvalue,             \* the switch values each process returned
    depthPositions1D,   \* per process
    surfaceProc, bottomProc,    \* each process's contribution to MPI_Allreduce
    bcastSurface, bcastBottom,  \* the broadcast in flight from the owner
    surfaceOffset,      \* solverHandler.setSurfaceOffset, per process
    convergedReason,    \* TSSetConvergedReason, per process
    surfacePos, nGridPoints,    \* locals of postEventFunction1D at its return
    calls,              \* what postEventFunction1D called, in order, per process
    collectives,        \* the collectives each process entered in this step
    pc,                 \* where each process stands in the step
    atEntry,            \* the counters of each process when it entered eventFunction1D
    atStep,             \* the solution the integrator handed over at this step
    concs,              \* localC of updateConcentration, ghost points included
    updatedConcs,       \* F of updateConcentration
    incidentFluxVector, \* fluxHandler->getIncidentFluxVec(ftime, surfacePosition)
    temperatures,       \* temperatureHandler->getTemperature at each grid point
    lastTemperature,    \* the handler's lastTemperature, per process
    rateUpdates,        \* calls of network->setTemperature, per process
    termCalls,          \* the terms added to each row of F, in order
    rhsPc,              \* whether each process has run updateConcentration
    networkTemperature, \* the temperature each process's network was last set to
    mutationRate,       \* the rate k_tm of each process's trap-mutation handler
    mutationRateUpdates,\* calls of updateTrapMutationRate, per process
    ratesAt,            \* the rates in force when the fluxes of a row were evaluated
    mutationAdded,      \* what computeTrapMutation added to each row of F
    evaluation,         \* the number of the residual evaluation under way
    rateUpdatesAtCall,  \* rateUpdates when this evaluation was called, per process
    temperatureHistory, \* the temperature profile of each evaluation so far
    jacPc,              \* how far each process is with the Jacobian
    jacobian,           \* the entries of J written by MatSetValuesStencil
    mutationPartials,   \* what computePartialsForTrapMutation returned at each row,
                        \* and the entries stamped from it
    checkpointFile,     \* the timestep group startStop1D writes
    written,            \* the state startStop1D wrote from
    hasConcentrations,  \* whether the run is started from the timestep group
    singleVacancyCluster,   \* network->get(vType, 1), or no cluster
    flagHeRetention,    \* the option -helium_retention
    ckPc,               \* where each process stands between the write and the restart
    negThreshold1D,     \* the threshold of -check_negative
    negChecks,          \* calls of checkNegative1D, per process
    clampedOnce,        \* the solution as the first call of each process left its rows
    printMaxClusterConc1D,  \* whether the warning is still to be printed, per process
    mcPc,               \* where each process stands in monitorMaxClusterConc1D
    reduceBuf,          \* what each process handed to MPI_Reduce (-1: nothing)
    bcastPrint,         \* what process 0 handed to MPI_Bcast
    warnings,           \* the calls the warning was printed in, in order
    monitorCalls,       \* the calls of the monitor so far
    worked,             \* the calls each process looked at its grid points in
    concHistory,        \* the solution at each call of the monitor
    hdf5Stride1D,       \* the stride of -start_stop
    hdf5Previous1D,     \* the stride interval of the last dump, per process
    dumps,              \* the steps startStop1D wrote a timestep group in, per process
    ssPc,               \* where each process stands in the monitors of a step
    clusterId,          \* the id toClusterMap is asked for
    clusterMap,         \* what toClusterMap has reported
    opts,               \* the options and what the initializations outside main will report
    mainPc,             \* where main stands, per process
    initResults,        \* what initPerf, initMaterial, initTemp and initViz returned to main, per process
    theTemperatureHandler,\* the handler of the factory, per process
    thrownAt,           \* the call that threw into the catch of main, per process
    solverSetUp,        \* whether setUpSolver was called, per process
    exitCode,           \* what main returned, per process
    clusterPartials,    \* the buffer handed to getPartialDerivatives, per process
    partialsCalls,      \* the calls of getPartialDerivatives a process has made: the buffer before the call, the columns written, read and reset
    hcPc,               \* where a process stands in computeHeliumConc1D
    hcReduces,          \* the grid points at which a process has entered MPI_Reduce in this call
    hcLocal,            \* heConcLocal as the process handed it to MPI_Reduce, per grid point
    hcFile,             \* the lines of the heliumConc files
    reevaluatedAt       \* the step in which the integrator has evaluated the event function a second time, -1 before

vars == << grid, surfacePosition, initialVConc, movingSurface, bubbleBursting,
           rightOffset, sputteringYield1D, xs, xm, solution, time, tsNumber,
           previousTime, nInterstitial1D, previousIFlux1D, nHelium1D,
           previousHeFlux1D, nDeuterium1D, previousDFlux1D, nTritium1D,
           previousTFlux1D, fvalue, depthPositions1D, surfaceProc, bottomProc,
           bcastSurface, bcastBottom, surfaceOffset, convergedReason,
           surfacePos, nGridPoints, calls, collectives, pc, atEntry, atStep,
           concs, updatedConcs, incidentFluxVector, temperatures,
           lastTemperature, rateUpdates, termCalls, rhsPc,
           networkTemperature, mutationRate, mutationRateUpdates, ratesAt,
           mutationAdded, evaluation, rateUpdatesAtCall,
           temperatureHistory, jacPc, jacobian, mutationPartials,
           checkpointFile, written, hasConcentrations, singleVacancyCluster,
           flagHeRetention, ckPc, negThreshold1D, negChecks, clampedOnce,
           printMaxClusterConc1D, mcPc, reduceBuf, bcastPrint, warnings,
           monitorCalls, worked, concHistory, hdf5Stride1D, hdf5Previous1D,
           dumps, ssPc,
           clusterId, clusterMap,
           opts, mainPc, initResults, theTemperatureHandler, thrownAt, solverSetUp, exitCode,
           clusterPartials, partialsCalls,
           hcPc, hcReduces, hcLocal, hcFile,
           reevaluatedAt >>

\* the state of the residual loop
residual == << concs, updatedConcs, incidentFluxVector, temperatures,
               lastTemperature, rateUpdates, termCalls, rhsPc,
               networkTemperature, mutationRate, mutationRateUpdates, ratesAt,
               mutationAdded, evaluation, rateUpdatesAtCall, temperatureHistory >>

\* the state of the Jacobian passes
assembly == << jacPc, jacobian, mutationPartials >>

\* the state of the checkpoint and of the restart from it
restart == << checkpointFile, written, hasConcentrations, singleVacancyCluster,
              flagHeRetention, ckPc >>

\* the state of the event controller
controller == << solution, time, tsNumber, previousTime, nInterstitial1D,
                 previousIFlux1D, nHelium1D, previousHeFlux1D, nDeuterium1D,
                 previousDFlux1D, nTritium1D, previousTFlux1D, fvalue,
                 depthPositions1D, surfaceProc, bottomProc, bcastSurface,
                 bcastBottom, surfaceOffset, convergedReason, surfacePos,
                 nGridPoints, calls, collectives, pc, atEntry, atStep >>

\* the state of checkNegative1D and of monitorMaxClusterConc1D
monitors == << negThreshold1D, negChecks, clampedOnce, printMaxClusterConc1D,
               mcPc, reduceBuf, bcastPrint, warnings, monitorCalls, worked,
               concHistory >>

\* the state of the stride of startStop1D
stride == << hdf5Stride1D, hdf5Previous1D, dumps, ssPc >>

\* the state of the test of toClusterMap
catalogue == << clusterId, clusterMap >>

\* the state of main and of the temperature handler factory
program == << opts, mainPc, initResults, theTemperatureHandler, thrownAt, solverSetUp, exitCode >>

\* the scratch buffer of computeDiagonalJacobian
scratch == << clusterPartials, partialsCalls >>

\* the state of computeHeliumConc1D
heconc == << hcPc, hcReduces, hcLocal, hcFile >>

\* the evaluations of the event function the integrator asks for again
reeval == << reevaluatedAt >>

\* the state of the code around the solver loop
elsewhere == << stride, catalogue, program, scratch, heconc, reeval >>

\* the state the event controller leaves alone
outside == << residual, assembly, restart, monitors, elsewhere >>

config == << grid, surfacePosition, initialVConc, movingSurface, bubbleBursting,
             rightOffset, sputteringYield1D, xs, xm >>

Mx == MxOf(grid)
\* xi is on this process
Owns(p, xi) == xi >= xs[p] /\ xi < xs[p] + xm[p]

(***************************************************************************)
(* Pure parts of the event controller.                                     *)
(***************************************************************************)
RECURSIVE SumOver(_, _)
SumOver(f, S) == IF S = {} THEN 0
                 ELSE LET x == CHOOSE y \in S : TRUE
                      IN f[x] + SumOver(f, S \ {x})

\* The density of tungsten, 62.8 atoms/nm3
TungstenDensity == 628
\* heliumFluxAmplitude of the flux handler
FluxAmplitude == 7

\* double threshold = (62.8 - initialVConc) * (grid[xi + 1] - grid[xi]);
ThresholdAt(g, v, xi) == (TungstenDensity - v) * (g[xi + 1] - g[xi])

\* the interstitial flux going to the left at xi, summed over the I clusters
InterstitialFlux(g, xi, vec) ==
    LET hxLeft == g[xi + 1] - g[xi]
        hxRight == g[xi + 2] - g[xi + 1]
        term == [id \in GetAll("I") |->
                   (2 * Cluster(id).size * DiffusionCoefficient(id) * vec[id] * hxLeft)
                       \div (hxLeft * (hxLeft + hxRight))]
    IN SumOver(term, GetAll("I"))

\* the flux of one species going to the right at xi = Mx - 2
BulkFlux(g, xi, vec, type) ==
    LET hxLeft == g[xi + 1] - g[xi]
        hxRight == g[xi + 2] - g[xi + 1]
        term == [id \in GetAll(type) |->
                   (2 * Cluster(id).size * DiffusionCoefficient(id) * vec[id] * hxRight)
                       \div (hxRight * (hxLeft + hxRight))]
    IN SumOver(term, GetAll(type))

(***************************************************************************)
(* Bubble bursting: the radius of the nascent bubble, in 1e-4 nm.          *)
(*   radius = (sqrt(3)/4) a + cbrt(3 a^3 nV / (8 pi)) - cbrt(3 a^3 / (8 pi)) *)
(* with a = 0.317 nm: (sqrt(3)/4) a = 0.1373 nm and                        *)
(* cbrt(3 a^3 / (8 pi)) = 0.1561 nm, nV = heDensity * dx / 4.              *)
(***************************************************************************)
RadiusSurfaceTerm == 1373
RadiusVolumeTerm == 1561
\* the depth parameter tauBursting of the solver handler, 0.1 nm
TauBursting == 1

\* the integer cube root: the largest r in lo .. hi with r^3 <= n, by bisection
RECURSIVE CbrtBetween(_, _, _)
CbrtBetween(n, lo, hi) ==
    IF lo = hi THEN lo
    ELSE LET mid == (lo + hi + 1) \div 2
         IN IF mid * mid * mid <= n THEN CbrtBetween(n, mid, hi)
            ELSE CbrtBetween(n, lo, mid - 1)
ICbrt(n) == CbrtBetween(n, 0, 1023)

\* PSISuperCluster::getHeDistance and getVDistance: 2 (n - mean) / (width - 1)
Distance(n, bounds) ==
    LET lo == CHOOSE x \in bounds : \A y \in bounds : x <= y
        hi == CHOOSE x \in bounds : \A y \in bounds : x >= y
        width == hi - lo + 1
    IN IF width = 1 THEN 0 ELSE (2 * n - (lo + hi)) \div (width - 1)

\* PSISuperCluster::getConcentration(distHe, distV), the moments read from vec
SuperConcentration(vec, id, distHe, distV) ==
    vec[id] + distHe * vec[MomentId(id, 0)] + distV * vec[MomentId(id, 3)]

\* PSISuperCluster::getIntegratedVConcentration(v): the concentration summed
\* over the helium axis at v vacancies
IntegratedVConcentration(vec, id, v) ==
    LET term == [he \in SuperHeBounds |->
                   SuperConcentration(vec, id, Distance(he, SuperHeBounds),
                                      Distance(v, SuperVBounds))]
    IN SumOver(term, SuperHeBounds)

\* network.getTotalAtomConcentration(): helium atoms per volume
HeDensity(vec) ==
    LET single == [id \in GetAll("He") |-> Cluster(id).size * vec[id]]
        mixed == [id \in GetAll("PSIMixed") |-> Cluster(id).he * vec[id]]
        inSuper(id) ==
            LET term == [hv \in SuperHeBounds \X SuperVBounds |->
                           hv[1] * SuperConcentration(vec, id,
                                       Distance(hv[1], SuperHeBounds),
                                       Distance(hv[2], SuperVBounds))]
            IN SumOver(term, SuperHeBounds \X SuperVBounds)
        super == [id \in GetAll("PSISuper") |-> inSuper(id)]
    IN SumOver(single, GetAll("He")) + SumOver(mixed, GetAll("PSIMixed"))
         + SumOver(super, GetAll("PSISuper"))

\* double radius = ...: in 1e-4 nm, from the helium density and the cell width
Radius(heDensity, dx) ==
    RadiusSurfaceTerm + (RadiusVolumeTerm * ICbrt(2500 * heDensity * dx)) \div 100
        - RadiusVolumeTerm

\* 1000 exp(-k/2), k = 0, 1, ...
ExpNegHalf == << 1000, 607, 368, 223, 135, 82, 50, 30, 18, 11, 7, 4, 2, 1 >>
\* 1000 min(1.0, exp(-(distance - depthParam) / (depthParam * 2.0)))
Attenuation(distance, depthParam) ==
    IF distance <= depthParam THEN 1000
    ELSE LET k == (distance - depthParam) \div depthParam
         IN IF k + 1 > Len(ExpNegHalf) THEN 0 ELSE ExpNegHalf[k + 1]

\* the values the random number generator returns, in halves: 0.0 and 0.5
TestValues == {0, 1}

\* whether grid point xi bursts: the radius reaches the surface, or the
\* probability beats the random draw `test`
\*   prob = prefactor * (1 - (distance - radius) / distance) * min(1, exp(..))
\* with prefactor = heliumFluxAmplitude * dt * 0.1.  At distance 0 the quotient
\* is infinite or NaN and prob > test is false.
Bursts(g, sp, vec, xi, dt, test) ==
    LET distance == g[xi + 1] - g[sp + 1]
        radius == Radius(HeDensity(vec), g[xi + 1] - g[xi])
    IN \/ radius > 1000 * distance
       \/ /\ distance > 0
          /\ 2 * FluxAmplitude * dt * radius * Attenuation(distance, TauBursting)
                > 10 * test * (1000 * distance) * 1000

(***************************************************************************)
(* Initial states: the state after setupPetsc1DMonitor.                    *)
(***************************************************************************)
\* the ways DMDA may cut Mx grid points into NumProcs contiguous slabs
RECURSIVE Slabs(_, _, _)
Slabs(first, n, procs) ==
    IF procs = 1 THEN { << <<first, n>> >> }
    ELSE UNION { { << <<first, k>> >> \o rest :
                     rest \in Slabs(first + k, n - k, procs - 1) } :
                 k \in 1 .. (n - procs + 1) }
\* the balanced cut, and the one that leaves all but one point to the last process
Partitions(n) ==
    { s \in Slabs(0, n, NumProcs) :
        \/ \A i \in 1 .. NumProcs : s[i][2] \in {n \div NumProcs, n \div NumProcs + 1}
                                       /\ (i < NumProcs => s[i][2] >= s[i + 1][2])
        \/ \A i \in 1 .. (NumProcs - 1) : s[i][2] = 1 }

\* initial vacancy concentrations: none, and one above the density of tungsten
InitialVConcValues == {0, 700}
\* the sputtering yields
SputteringYieldValues == {0, 10}
\* nInterstitial read from a checkpoint (0 without one)
NInterstitialValues == {0}

NoMsg == << >>
AllOne == [i \in 0 .. 2 |-> 1]

\* the integrator and the event function before the first step
SteppingStart ==
    /\ atStep = solution
    /\ time = 0
    /\ tsNumber = 0
    /\ fvalue = [p \in Procs |-> AllOne]
    /\ depthPositions1D = [p \in Procs |-> << >>]
    /\ surfaceProc = [p \in Procs |-> -1]
    /\ bottomProc = [p \in Procs |-> -1]
    /\ bcastSurface = NoMsg
    /\ bcastBottom = NoMsg
    /\ surfaceOffset = [p \in Procs |-> 0]
    /\ convergedReason = [p \in Procs |-> "TS_CONVERGED_ITERATING"]
    /\ surfacePos = [p \in Procs |-> surfacePosition]
    /\ nGridPoints = [p \in Procs |-> 0]
    /\ calls = [p \in Procs |-> << >>]
    /\ collectives = [p \in Procs |-> << >>]
    /\ pc = [p \in Procs |-> "stepped"]
    /\ atEntry = [p \in Procs |-> [n |-> nInterstitial1D[p], flux |-> 0,
                                    surface |-> surfacePosition]]

\* the controller before the first step: counters as setupPetsc1DMonitor
\* leaves them without a checkpoint
ControllerStart ==
    /\ solution = [xi \in 0 .. (MxOf(grid) - 1) |-> ZeroVec]
    /\ previousTime = [p \in Procs |-> 0]
    /\ \E n \in NInterstitialValues :
          /\ (n # 0 => movingSurface)
          /\ nInterstitial1D = [p \in Procs |-> n]
    /\ previousIFlux1D = [p \in Procs |-> 0]
    /\ nHelium1D = [p \in Procs |-> 0]
    /\ previousHeFlux1D = [p \in Procs |-> 0]
    /\ nDeuterium1D = [p \in Procs |-> 0]
    /\ previousDFlux1D = [p \in Procs |-> 0]
    /\ nTritium1D = [p \in Procs |-> 0]
    /\ previousTFlux1D = [p \in Procs |-> 0]
    /\ SteppingStart

\* no timestep group was written and no run was started from one
NoFile == [header |-> << >>, concs |-> << >>]
RestartStart ==
    /\ checkpointFile = NoFile
    /\ written = << >>
    /\ hasConcentrations = FALSE
    /\ singleVacancyCluster = GetV(1)
    /\ flagHeRetention = TRUE
    /\ ckPc = [p \in Procs |-> "unused"]

\* PetscReal hdf5Stride1D = 0.0; PetscInt hdf5Previous1D = 0;
StrideStart ==
    /\ hdf5Stride1D = 0
    /\ hdf5Previous1D = [p \in Procs |-> 0]
    /\ dumps = [p \in Procs |-> << >>]
    /\ ssPc = [p \in Procs |-> "idle"]

\* toClusterMap was not asked
CatalogueStart ==
    /\ clusterId = -1
    /\ clusterMap = << >>

\* main was not started; theTemperatureHandler is a null pointer
ProgramStart ==
    /\ opts = << >>
    /\ mainPc = [p \in Procs |-> "idle"]
    /\ initResults = [p \in Procs |-> << >>]
    /\ theTemperatureHandler = [p \in Procs |-> "none"]
    /\ thrownAt = [p \in Procs |-> "none"]
    /\ solverSetUp = [p \in Procs |-> FALSE]
    /\ exitCode = [p \in Procs |-> -1]

\* createSolverContext has resized clusterPartials to dof zeros
ScratchStart ==
    /\ clusterPartials = [p \in Procs |-> [j \in ClusterIds |-> 0]]
    /\ partialsCalls = [p \in Procs |-> << >>]

\* computeHeliumConc1D was not called
HeConcStart ==
    /\ hcPc = [p \in Procs |-> "idle"]
    /\ hcReduces = [p \in Procs |-> << >>]
    /\ hcLocal = [p \in Procs |-> << >>]
    /\ hcFile = {}

\* the event function was evaluated once per step so far
ReevalStart ==
    /\ reevaluatedAt = -1

\* the code around the solver loop before it runs
ElsewhereStart ==
    /\ StrideStart
    /\ CatalogueStart
    /\ ProgramStart
    /\ ScratchStart
    /\ HeConcStart
    /\ ReevalStart

\* no monitor was called: bool printMaxClusterConc1D = true
MonitorsStart ==
    /\ ElsewhereStart
    /\ negThreshold1D = 0
    /\ negChecks = [p \in Procs |-> 0]
    /\ clampedOnce = << >>
    /\ printMaxClusterConc1D = [p \in Procs |-> TRUE]
    /\ mcPc = [p \in Procs |-> "idle"]
    /\ reduceBuf = [p \in Procs |-> -1]
    /\ bcastPrint = NoMsg
    /\ warnings = << >>
    /\ monitorCalls = 0
    /\ worked = [p \in Procs |-> {}]
    /\ concHistory = << >>

\* no flux was evaluated on the row yet
NoRates == [network |-> 0, rate |-> 0, last |-> 0]

\* no partials were asked for on the row
NoPartials == [n |-> 0, indices |-> << >>, val |-> << >>, stamps |-> << >>]

\* J before the Jacobian passes
AssemblyStart ==
    /\ jacPc = [p \in Procs |-> "idle"]
    /\ jacobian = {}
    /\ mutationPartials = [xi \in 0 .. (MxOf(grid) - 1) |-> NoPartials]

\* the residual loop before updateConcentration is called
ResidualStart ==
    /\ concs = [xi \in -1 .. MxOf(grid) |-> [k \in ClusterIds |-> 0]]
    /\ updatedConcs = [xi \in 0 .. (MxOf(grid) - 1) |-> [k \in ClusterIds |-> 0]]
    /\ incidentFluxVector = [xi \in 0 .. (MxOf(grid) - 1) |-> 0]
    /\ temperatures = [xi \in 0 .. (MxOf(grid) - 1) |-> 0]
    \* lastTemperature = 0.0 in createSolverContext
    /\ lastTemperature = [p \in Procs |-> 0]
    /\ rateUpdates = [p \in Procs |-> 0]
    /\ termCalls = [xi \in 0 .. (MxOf(grid) - 1) |-> << >>]
    /\ networkTemperature = [p \in Procs |-> 0]
    /\ mutationRate = [p \in Procs |-> 0]
    /\ mutationRateUpdates = [p \in Procs |-> 0]
    /\ ratesAt = [xi \in 0 .. (MxOf(grid) - 1) |-> NoRates]
    /\ mutationAdded = [xi \in 0 .. (MxOf(grid) - 1) |-> [k \in ClusterIds |-> 0]]
    /\ evaluation = 0
    /\ rateUpdatesAtCall = [p \in Procs |-> 0]
    /\ temperatureHistory = << >>
    /\ AssemblyStart

Init ==
    /\ grid \in GridChoices
    /\ initialVConc \in InitialVConcValues
    /\ movingSurface \in BOOLEAN
    /\ bubbleBursting \in BOOLEAN
    \* the event handler is set only if the surface moves or bubbles burst
    /\ movingSurface \/ bubbleBursting
    \* surfacePosition = 0; if (movingSurface) surfacePosition = (int) (nx * portion / 100.0)
    /\ surfacePosition \in (IF movingSurface THEN {0, 1} ELSE {0})
    /\ rightOffset \in {0, 1}
    /\ sputteringYield1D \in (IF movingSurface THEN SputteringYieldValues ELSE {0})
    /\ \E s \in Partitions(MxOf(grid)) :
          /\ xs = [p \in Procs |-> s[p + 1][1]]
          /\ xm = [p \in Procs |-> s[p + 1][2]]
    /\ ControllerStart
    /\ ResidualStart
    /\ rhsPc = [p \in Procs |-> "unused"]
    /\ RestartStart
    /\ MonitorsStart

(***************************************************************************)
(* The integrator takes a step: time advances and the solution changes.    *)
(***************************************************************************)
DtValues == {1, 2}

\* the solutions the integrator hands over: nothing, interstitials at every
\* interior point, and a helium-rich or helium-lean point at some depth
Solutions(g, sp) ==
    LET mx == MxOf(g)
        interior(xi) == xi > sp /\ xi < mx - 1
    IN { [xi \in 0 .. (mx - 1) |-> ZeroVec],
         [xi \in 0 .. (mx - 1) |-> IF interior(xi) THEN IRichVec ELSE ZeroVec] }
       \cup { [xi \in 0 .. (mx - 1) |-> IF xi = b[1] THEN b[2] ELSE
                                        IF interior(xi) THEN IRichVec ELSE ZeroVec] :
                b \in {<< sp + 1, HeRichVec >>, << mx - 2, HeLeanVec >>} }

TSStep ==
    /\ UNCHANGED outside
    /\ \A p \in Procs : pc[p] = "posted"
    /\ \A p \in Procs : convergedReason[p] = "TS_CONVERGED_ITERATING"
    /\ tsNumber < MaxSteps
    /\ \E dt \in DtValues : time' = time + dt
    /\ solution' \in Solutions(grid, surfacePosition)
    /\ atStep' = solution'
    /\ tsNumber' = tsNumber + 1
    /\ pc' = [p \in Procs |-> "stepped"]
    /\ surfaceProc' = [p \in Procs |-> -1]
    /\ bottomProc' = [p \in Procs |-> -1]
    /\ bcastSurface' = NoMsg
    /\ bcastBottom' = NoMsg
    /\ collectives' = [p \in Procs |-> << >>]
    /\ UNCHANGED << config, previousTime, nInterstitial1D, previousIFlux1D,
                    nHelium1D, previousHeFlux1D, nDeuterium1D, previousDFlux1D,
                    nTritium1D, previousTFlux1D, fvalue, depthPositions1D,
                    surfaceOffset, convergedReason, surfacePos, nGridPoints,
                    calls, atEntry >>

(***************************************************************************)
(* computeHeliumRetention1D, up to its MPI_Allreduce.                      *)
(***************************************************************************)
RetentionLocal(p) ==
    /\ UNCHANGED outside
    /\ pc[p] = "stepped"
    /\ LET xi == Mx - 2
           dt == time - previousTime[p]
           owner == rightOffset = 1 /\ Owns(p, xi)
       IN /\ nHelium1D' = [nHelium1D EXCEPT ![p] =
                IF owner THEN @ + previousHeFlux1D[p] * dt ELSE @]
          /\ nDeuterium1D' = [nDeuterium1D EXCEPT ![p] =
                IF owner THEN @ + previousDFlux1D[p] * dt ELSE @]
          /\ nTritium1D' = [nTritium1D EXCEPT ![p] =
                IF owner THEN @ + previousTFlux1D[p] * dt ELSE @]
          /\ previousHeFlux1D' = [previousHeFlux1D EXCEPT ![p] =
                IF owner THEN BulkFlux(grid, xi, solution[xi], "He") ELSE @]
          /\ previousDFlux1D' = [previousDFlux1D EXCEPT ![p] =
                IF owner THEN BulkFlux(grid, xi, solution[xi], "D") ELSE @]
          /\ previousTFlux1D' = [previousTFlux1D EXCEPT ![p] =
                IF owner THEN BulkFlux(grid, xi, solution[xi], "T") ELSE @]
          /\ bottomProc' = [bottomProc EXCEPT ![p] =
                IF rightOffset = 1 THEN (IF owner THEN p ELSE 0) ELSE @]
    /\ collectives' = [collectives EXCEPT ![p] =
          IF rightOffset = 1 THEN @ \o << "MPI_Reduce", "MPI_Allreduce" >>
          ELSE @ \o << "MPI_Reduce" >>]
    /\ pc' = [pc EXCEPT ![p] = IF rightOffset = 1 THEN "retReduce" ELSE "retDone"]
    /\ UNCHANGED << config, solution, time, tsNumber, previousTime,
                    nInterstitial1D, previousIFlux1D, fvalue, depthPositions1D,
                    surfaceProc, bcastSurface, bcastBottom, surfaceOffset,
                    convergedReason, surfacePos, nGridPoints, calls, atEntry,
                    atStep >>

\* a broadcast that leaves the buffer of the process as it was
BcastSkipped(own, sent) == own

\* MPI_Bcast(buffer, count, MPI_DOUBLE, root, PETSC_COMM_WORLD): on return the
\* buffer of every process holds what the root sent
Bcast(own, sent) == sent

\* the six values of countFluxData
CountFluxData(p) == << nHelium1D[p], previousHeFlux1D[p], nDeuterium1D[p],
                       previousDFlux1D[p], nTritium1D[p], previousTFlux1D[p] >>

(***************************************************************************)
(* computeHeliumRetention1D from the MPI_Allreduce on: the owner of the     *)
(* bottom sends countFluxData, every other process receives it.            *)
(***************************************************************************)
RetentionFinish(p) ==
    /\ UNCHANGED outside
    /\ pc[p] = "retReduce"
    \* MPI_Allreduce returns once every process has entered it
    /\ \A q \in Procs : bottomProc[q] # -1
    /\ LET bottomId == SumOver(bottomProc, Procs)
           sent == IF p = bottomId THEN CountFluxData(p) ELSE bcastBottom
           data == Bcast(CountFluxData(p), sent)
       IN \* MPI_Bcast returns on a receiver once the root has sent
          /\ sent # NoMsg
          /\ bcastBottom' = sent
          /\ nHelium1D' = [nHelium1D EXCEPT ![p] = data[1]]
          /\ previousHeFlux1D' = [previousHeFlux1D EXCEPT ![p] = data[2]]
          /\ nDeuterium1D' = [nDeuterium1D EXCEPT ![p] = data[3]]
          /\ previousDFlux1D' = [previousDFlux1D EXCEPT ![p] = data[4]]
          /\ nTritium1D' = [nTritium1D EXCEPT ![p] = data[5]]
          /\ previousTFlux1D' = [previousTFlux1D EXCEPT ![p] = data[6]]
    /\ collectives' = [collectives EXCEPT ![p] = @ \o << "MPI_Bcast" >>]
    /\ pc' = [pc EXCEPT ![p] = "retDone"]
    /\ UNCHANGED << config, solution, time, tsNumber, previousTime,
                    nInterstitial1D, previousIFlux1D, fvalue, depthPositions1D,
                    surfaceProc, bottomProc, bcastSurface, surfaceOffset,
                    convergedReason, surfacePos, nGridPoints, calls, atEntry,
                    atStep >>

(***************************************************************************)
(* eventFunction1D, up to its MPI_Allreduce.                               *)
(***************************************************************************)
\* if (xi >= xs && xi < xs + xm): the process that updates the counters
SurfaceOwner(p, xi) == Owns(p, xi)

\* the accumulation without the sputtering term
AccumulateNoSputtering(n, flux, yield, dt) == n + flux * dt

\* nInterstitial1D += previousIFlux1D * dt;
\* nInterstitial1D -= sputteringYield1D * heliumFluxAmplitude * dt;
Accumulate(n, flux, yield, dt) == (n + flux * dt) - yield * FluxAmplitude * dt

EventLocal(p) ==
    /\ UNCHANGED outside
    /\ pc[p] = "retDone"
    /\ LET xi == surfacePosition + 1
           dt == time - previousTime[p]
           owner == movingSurface /\ SurfaceOwner(p, xi)
       IN /\ atEntry' = [atEntry EXCEPT ![p] =
                [n |-> nInterstitial1D[p], flux |-> previousIFlux1D[p],
                 surface |-> surfacePosition]]
          /\ nInterstitial1D' = [nInterstitial1D EXCEPT ![p] =
                IF owner THEN Accumulate(@, previousIFlux1D[p], sputteringYield1D, dt)
                ELSE @]
          /\ previousIFlux1D' = [previousIFlux1D EXCEPT ![p] =
                IF owner THEN InterstitialFlux(grid, xi, solution[xi]) ELSE @]
          /\ surfaceProc' = [surfaceProc EXCEPT ![p] =
                IF movingSurface THEN (IF owner THEN p ELSE 0) ELSE @]
    \* depthPositions1D.clear(); fvalue[0] = 1.0, fvalue[1] = 1.0, fvalue[2] = 1.0;
    /\ depthPositions1D' = [depthPositions1D EXCEPT ![p] = << >>]
    /\ fvalue' = [fvalue EXCEPT ![p] = AllOne]
    /\ collectives' = [collectives EXCEPT ![p] =
          IF movingSurface THEN @ \o << "MPI_Allreduce" >> ELSE @]
    /\ pc' = [pc EXCEPT ![p] = "evReduce"]
    /\ UNCHANGED << config, solution, time, tsNumber, previousTime, nHelium1D,
                    previousHeFlux1D, nDeuterium1D, previousDFlux1D, nTritium1D,
                    previousTFlux1D, bottomProc, bcastSurface, bcastBottom,
                    surfaceOffset, convergedReason, surfacePos, nGridPoints,
                    calls, atStep >>

(***************************************************************************)
(* eventFunction1D from the MPI_Allreduce on: the owner of the surface     *)
(* broadcasts its counters, every process compares nInterstitial1D with    *)
(* the threshold, then looks for bursting bubbles on its slab.             *)
(***************************************************************************)
\* the two tests without the "else" between them
MovingSwitchesIndependent(n, threshold) ==
    << IF n > threshold THEN 0 ELSE 1, IF 10 * n < -threshold THEN 0 ELSE 1 >>

\* the retreat test against -threshold instead of -threshold / 10
MovingSwitchesNoTenth(n, threshold) ==
    IF n > threshold THEN << 0, 1 >>
    ELSE IF n < -threshold THEN << 1, 0 >>
    ELSE << 1, 1 >>

\* if (nInterstitial1D > threshold) fvalue[0] = 0.0;
\* else if (nInterstitial1D < -threshold / 10.0) fvalue[1] = 0.0;
MovingSwitches(n, threshold) ==
    IF n > threshold THEN << 0, 1 >>
    ELSE IF 10 * n < -threshold THEN << 1, 0 >>
    ELSE << 1, 1 >>

\* the increasing sequence of the elements of a set of integers
RECURSIVE SortedSeq(_)
SortedSeq(S) == IF S = {} THEN << >>
                ELSE LET m == CHOOSE x \in S : \A y \in S : x <= y
                     IN << m >> \o SortedSeq(S \ {m})

\* the grid points the loop on the full grid looks at on process p
BurstCandidates(p) == {xi \in 0 .. (Mx - 1) : xi >= surfacePosition /\ Owns(p, xi)}

\* the sets of grid points the loop on the grid may record as bursting: one
\* draw of the random number generator for each grid point it looks at
RECURSIVE DepthSets(_, _, _, _, _)
DepthSets(g, sp, sol, dt, candidates) ==
    IF candidates = {} THEN {{}}
    ELSE LET xi == CHOOSE x \in candidates : \A y \in candidates : x <= y
             outcomes == {Bursts(g, sp, sol[xi], xi, dt, t) : t \in TestValues}
             deeper == DepthSets(g, sp, sol, dt, candidates \ {xi})
         IN {IF b THEN {xi} \cup d ELSE d : b \in outcomes, d \in deeper}

EventFinish(p) ==
    /\ UNCHANGED outside
    /\ pc[p] = "evReduce"
    /\ IF movingSurface
       THEN \* MPI_Allreduce returns once every process has entered it
            /\ \A q \in Procs : surfaceProc[q] # -1
            /\ LET surfaceId == SumOver(surfaceProc, Procs)
                   own == << nInterstitial1D[p], previousIFlux1D[p] >>
                   sent == IF p = surfaceId THEN own ELSE bcastSurface
                   data == Bcast(own, sent)
               IN \* MPI_Bcast returns on a receiver once the root has sent
                  /\ sent # NoMsg
                  /\ bcastSurface' = sent
                  /\ nInterstitial1D' = [nInterstitial1D EXCEPT ![p] = data[1]]
                  /\ previousIFlux1D' = [previousIFlux1D EXCEPT ![p] = data[2]]
            /\ collectives' = [collectives EXCEPT ![p] =
                                  @ \o << "MPI_Bcast", "MPI_Bcast" >>]
       ELSE UNCHANGED << bcastSurface, nInterstitial1D, previousIFlux1D, collectives >>
    /\ LET dt == time - previousTime[p]
           moving == IF movingSurface
                     THEN MovingSwitches(nInterstitial1D'[p],
                            ThresholdAt(grid, initialVConc, surfacePosition + 1))
                     ELSE << 1, 1 >>
       IN \E depths \in (IF bubbleBursting
                         THEN DepthSets(grid, surfacePosition, solution, dt,
                                        BurstCandidates(p))
                         ELSE {{}}) :
            /\ depthPositions1D' = [depthPositions1D EXCEPT ![p] = SortedSeq(depths)]
            /\ fvalue' = [fvalue EXCEPT ![p] =
                  [i \in 0 .. 2 |-> IF i = 2 THEN (IF depths # {} THEN 0 ELSE 1)
                                    ELSE moving[i + 1]]]
    /\ pc' = [pc EXCEPT ![p] = "evDone"]
    /\ UNCHANGED << config, solution, time, tsNumber, previousTime, nHelium1D,
                    previousHeFlux1D, nDeuterium1D, previousDFlux1D, nTritium1D,
                    previousTFlux1D, surfaceProc, bottomProc, bcastBottom,
                    surfaceOffset, convergedReason, surfacePos, nGridPoints,
                    calls, atEntry, atStep >>

(***************************************************************************)
(* postEventFunction1D.                                                    *)
(***************************************************************************)
\* the events the integrator reports: the switches some process found at zero
EventList == {i \in 0 .. 2 : \E q \in Procs : fvalue[q][i] = 0}

\* monitorTime: the time of this step becomes the previous time
MonitorTime(prev, p) == [prev EXCEPT ![p] = time]

\* Consider each He, D, T to reset their concentration at this grid point
ResetSingles(vec) ==
    [k \in Dofs |-> IF k \in GetAll("He") \cup GetAll("D") \cup GetAll("T")
                    THEN 0 ELSE vec[k]]

\* the transfer of every HeV cluster to the smallest V cluster
RECURSIVE TransferMixedToSingleV(_, _)
TransferMixedToSingleV(vec, ids) ==
    IF ids = {} THEN vec
    ELSE LET id == CHOOSE x \in ids : \A y \in ids : x <= y
             vId == GetV(1)
         IN TransferMixedToSingleV([vec EXCEPT ![vId] = @ + vec[id], ![id] = 0],
                                   ids \ {id})

\* Consider each HeV cluster to transfer their concentration to the V cluster
\* of the same size at this grid point
RECURSIVE TransferMixed(_, _)
TransferMixed(vec, ids) ==
    IF ids = {} THEN vec
    ELSE LET id == CHOOSE x \in ids : \A y \in ids : x <= y
             vId == GetV(Cluster(id).v)
         IN TransferMixed([vec EXCEPT ![vId] = @ + vec[id], ![id] = 0], ids \ {id})

\* Loop on the V boundaries of one super cluster; the cluster's moments are
\* those the network was given before the loop (vec0)
RECURSIVE TransferSuperV(_, _, _, _)
TransferSuperV(vec, vec0, id, vs) ==
    IF vs = {} THEN vec
    ELSE LET j == CHOOSE x \in vs : \A y \in vs : x <= y
             vId == GetV(j)
         IN TransferSuperV([vec EXCEPT ![vId] = @ + IntegratedVConcentration(vec0, id, j)],
                           vec0, id, vs \ {j})

\* Loop on the super clusters, then reset the super cluster concentration
RECURSIVE TransferSupers(_, _, _)
TransferSupers(vec, vec0, ids) ==
    IF ids = {} THEN vec
    ELSE LET id == CHOOSE x \in ids : \A y \in ids : x <= y
             moved == TransferSuperV(vec, vec0, id, SuperVBounds)
             reset == [k \in Dofs |-> IF k = id \/ k \in MomentIds(id) THEN 0
                                      ELSE moved[k]]
         IN TransferSupers(reset, vec0, ids \ {id})

\* what the loop on the bursting depths does to one grid point
BurstPoint(vec) ==
    TransferSupers(TransferMixed(ResetSingles(vec), GetAll("PSIMixed")),
                   vec, GetAll("PSISuper"))

\* Move the surface up until it is smaller than the next threshold.  The
\* threshold recomputed in the loop is a new variable of the loop's block:
\* the test and the subtraction use the threshold computed before the loop.
\* oob: the recomputation read grid[xi] at xi < 0.
RECURSIVE MoveUp(_, _, _, _, _, _)
MoveUp(n, sp, cnt, threshold, oob, fuel) ==
    IF ~(n > threshold)
    THEN [n |-> n, sp |-> sp, cnt |-> cnt, oob |-> oob, status |-> "returned"]
    ELSE IF fuel = 0
    THEN [n |-> n, sp |-> sp, cnt |-> cnt, oob |-> oob, status |-> "forever"]
    ELSE MoveUp(n - threshold, sp - 1, cnt + 1, threshold, oob \/ sp < 0, fuel - 1)

\* what a read beyond the last grid entry may give as grid[xi + 2] - grid[xi + 1]
GarbageSpacings == {0, 1}

\* Move it back as long as the number of interstitials in negative.  The
\* threshold of the deeper cell reads grid[xi + 2]: beyond the last entry the
\* read is undefined, the run crashes or goes on with whatever was read.
RECURSIVE MoveDown(_, _, _, _, _, _)
MoveDown(n, sp, cnt, g, v, fuel) ==
    IF ~(n < 0)
    THEN {[n |-> n, sp |-> sp, cnt |-> cnt, oob |-> FALSE, status |-> "returned"]}
    ELSE IF fuel = 0
    THEN {[n |-> n, sp |-> sp, cnt |-> cnt, oob |-> FALSE, status |-> "forever"]}
    ELSE LET xi == sp + 1
         IN IF xi + 2 \in DOMAIN g
            THEN MoveDown(n + ThresholdAt(g, v, xi + 1), sp + 1, cnt - 1, g, v, fuel - 1)
            ELSE {[n |-> n, sp |-> sp, cnt |-> cnt, oob |-> TRUE, status |-> "crashed"]}
                 \cup UNION { { [r EXCEPT !.oob = TRUE] :
                                  r \in MoveDown(n + (TungstenDensity - v) * d, sp + 1,
                                                 cnt - 1, g, v, fuel - 1) } :
                              d \in GarbageSpacings }

\* the outcomes of the moving-surface part of postEventFunction1D
SurfaceOutcomes(n, sp, g, v, movingUp) ==
    IF movingUp
    THEN LET r == MoveUp(n, sp, 0, ThresholdAt(g, v, sp + 1), FALSE, LoopFuel)
         IN IF r.oob /\ r.status = "returned"
            THEN {r, [r EXCEPT !.status = "crashed"]}
            ELSE {r}
    ELSE MoveDown(n, sp, 0, g, v, LoopFuel)

\* the handler stops the solver at the surface's old place only when the
\* surface has left the grid
StopsAtTop(movingUp, sp) == movingUp => sp <= 0

\* a handler that stops the solver only when the surface has left the grid
\* at the top, and not after moving the surface back
StopsOnlyMovingUp(movingUp, sp) == movingUp /\ sp < 0

\* if (surfacePos < 0) { setSurfaceOffset(nGridPoints); TSSetConvergedReason(...); }
\* moving down always ends with setSurfaceOffset and TSSetConvergedReason
Stops(movingUp, sp) == movingUp => sp < 0

\* postEventFunction1D from "if (nevents == 0)" on, entered at position from
\* with the monitors in called behind it
HandleEvents(p, from, called) ==
    /\ UNCHANGED outside
    /\ pc[p] = from
    \* the integrator handles the events once every process has evaluated them
    /\ \A q \in Procs : pc[q] \notin {"stepped", "retReduce", "retDone", "evReduce"}
    /\ LET nevents == Cardinality(EventList)
           moving == \E e \in EventList : e < 2
           movingUp == 0 \in EventList
           burstRows == {depthPositions1D[p][i] : i \in DOMAIN depthPositions1D[p]}
           still == /\ UNCHANGED << nInterstitial1D, surfaceOffset, convergedReason >>
                    /\ surfacePos' = [surfacePos EXCEPT ![p] = surfacePosition]
                    /\ nGridPoints' = [nGridPoints EXCEPT ![p] = 0]
       IN IF nevents = 0
          THEN /\ calls' = [calls EXCEPT ![p] = called]
               /\ pc' = [pc EXCEPT ![p] = "posted"]
               /\ still
               /\ UNCHANGED solution
          ELSE IF nevents = 3
          THEN /\ calls' = [calls EXCEPT ![p] = called \o << "throw" >>]
               /\ pc' = [pc EXCEPT ![p] = "thrown"]
               /\ still
               /\ UNCHANGED solution
          ELSE /\ solution' = [xi \in DOMAIN solution |->
                                 IF xi \in burstRows THEN BurstPoint(solution[xi])
                                 ELSE solution[xi]]
               /\ IF ~moving
                  THEN /\ calls' = [calls EXCEPT ![p] = called]
                       /\ pc' = [pc EXCEPT ![p] = "posted"]
                       /\ still
                  ELSE \E r \in SurfaceOutcomes(nInterstitial1D[p], surfacePosition,
                                                grid, initialVConc, movingUp) :
                         LET stops == r.status = "returned" /\ Stops(movingUp, r.sp)
                         IN /\ nInterstitial1D' = [nInterstitial1D EXCEPT ![p] = r.n]
                            /\ surfacePos' = [surfacePos EXCEPT ![p] = r.sp]
                            /\ nGridPoints' = [nGridPoints EXCEPT ![p] = r.cnt]
                            /\ surfaceOffset' = [surfaceOffset EXCEPT ![p] =
                                                   IF stops THEN r.cnt ELSE @]
                            /\ convergedReason' = [convergedReason EXCEPT ![p] =
                                                   IF stops THEN "TS_CONVERGED_USER" ELSE @]
                            /\ calls' = [calls EXCEPT ![p] =
                                  IF stops
                                  THEN called \o << "setSurfaceOffset", "TSSetConvergedReason" >>
                                  ELSE called]
                            /\ pc' = [pc EXCEPT ![p] =
                                  CASE r.status = "returned" -> "posted"
                                    [] r.status = "forever" -> "hung"
                                    [] OTHER -> "crashed"]
    /\ UNCHANGED << config, time, tsNumber, previousIFlux1D, nHelium1D,
                    previousHeFlux1D, nDeuterium1D, previousDFlux1D, nTritium1D,
                    previousTFlux1D, fvalue, depthPositions1D, surfaceProc,
                    bottomProc, bcastSurface, bcastBottom, collectives, atEntry,
                    atStep >>

PostEvent(p) ==
    /\ previousTime' = MonitorTime(previousTime, p)
    /\ HandleEvents(p, "evDone", << "computeFluence", "monitorTime" >>)

Next ==
    \/ TSStep
    \/ \E p \in Procs : RetentionLocal(p)
    \/ \E p \in Procs : RetentionFinish(p)
    \/ \E p \in Procs : EventLocal(p)
    \/ \E p \in Procs : EventFinish(p)
    \/ \E p \in Procs : PostEvent(p)

Spec == Init /\ [][Next]_vars

(***************************************************************************)
(* The residual loop: PetscSolver1DHandler::updateConcentration, run by    *)
(* every process on the grid points it owns.  The solver handler's grid    *)
(* holds the positions of the grid points only: its entry xi is grid[xi+1] *)
(* here, and its size is Mx.                                               *)
(***************************************************************************)
\* int xSize = grid.size();
XSize(g) == MxOf(g)
\* const int dof = network->size();
HandlerDofs == ClusterIds
\* int heliumIndex = heCluster->getId() - 1;
HeliumIndex == CHOOSE id \in GetAll("He") : Cluster(id).size = 1

\* the boundary test that takes the surface itself for an interior point
IsBoundaryBelowSurface(xi, sp, xSize) == xi < sp \/ xi = xSize - 1

\* if (xi <= surfacePosition || xi == xSize - 1)
IsBoundary(xi, sp, xSize) == xi <= sp \/ xi = xSize - 1

\* updatedConcOffset[i] = 1.0 * concOffset[i] for i in 0 .. dof - 1
BoundaryRow(concOffset) == [i \in HandlerDofs |-> 1 * concOffset[i]]

\* computeDiffusion: D [2 / (hL + hR)] [(C_left - C_mid) / hL + (C_right - C_mid) / hR]
DiffusionTerm(k, mid, left, right, hxLeft, hxRight) ==
    DiffusionCoefficient(k)
      * ((2 * ((left[k] - mid[k]) * hxRight + (right[k] - mid[k]) * hxLeft))
            \div (hxLeft * hxRight * (hxLeft + hxRight)))

\* the distance to the surface beyond which advection vanishes, 0.1 nm
AdvectionCutoff == 2

\* computeAdvection: a two-point stencil (middle, right) on the helium
\* clusters, nothing beyond the cutoff
AdvectionTerm(k, mid, right, hx, distance) ==
    IF Cluster(k).type = "He" /\ distance <= AdvectionCutoff
    THEN (right[k] - mid[k]) \div hx
    ELSE 0

\* the grid points below the surface that carry a trap-mutation rule
TrapMutationDepth == 2

\* the vacancies of the product of He_s at a depth bucket, 0 for no rule:
\* both sizes mutate on the first grid point below the surface, He_1 alone
\* on the second one, into HeV(1,2)
ProductVacancies(s, bucket) ==
    IF bucket = 1 THEN 1 ELSE IF bucket = 2 /\ s = 1 THEN 2 ELSE 0

\* network->get(heType, s), network->getCompound(heVType, {he, v, 0}),
\* network->get(iType, 1), as ids
GetHe(s) == CHOOSE id \in GetAll("He") : Cluster(id).size = s
GetMixed(he, v) ==
    CHOOSE id \in GetAll("PSIMixed") : Cluster(id).he = he /\ Cluster(id).v = v
InterstitialIndex == CHOOSE id \in GetAll("I") : Cluster(id).size = 1

\* the helium clusters that mutate at grid point xi, by increasing size, each
\* with its product
Mutating(xi, sp) ==
    LET bucket == xi - sp
        sizes == SortedSeq({Cluster(id).size : id \in GetAll("He")})
        firing == SelectSeq(sizes, LAMBDA size :
                      /\ bucket \in 1 .. TrapMutationDepth
                      /\ ProductVacancies(size, bucket) > 0)
    IN [i \in 1 .. Len(firing) |->
          [he |-> GetHe(firing[i]),
           hev |-> GetMixed(firing[i], ProductVacancies(firing[i], bucket))]]

\* the rate of the trap mutation at the network's temperature: it grows with
\* the temperature as the diffusion coefficient of He_1 does
TrapMutationRate(temperature) == temperature \div 10

\* a trap mutation that creates no interstitial
TrapMutationTermNoInterstitial(k, xi, sp, mid, rate) ==
    LET m == Mutating(xi, sp)
        added == [i \in 1 .. Len(m) |->
                    IF k = m[i].he THEN -(rate * mid[m[i].he])
                    ELSE IF k = m[i].hev THEN rate * mid[m[i].he]
                    ELSE 0]
    IN SumOver(added, 1 .. Len(m))

\* computeTrapMutation: what it adds to row k of the grid point: each firing
\* takes rate * C(He_s) from He_s and gives it to its product and to I_1
TrapMutationTerm(k, xi, sp, mid, rate) ==
    LET m == Mutating(xi, sp)
        added == [i \in 1 .. Len(m) |->
                    (IF k = m[i].he THEN -(rate * mid[m[i].he]) ELSE 0)
                    + (IF k = m[i].hev THEN rate * mid[m[i].he] ELSE 0)
                    + (IF k = InterstitialIndex THEN rate * mid[m[i].he] ELSE 0)]
    IN SumOver(added, 1 .. Len(m))

\* getTotalFlux of cluster k: V_1 and I_1 annihilate
TotalFlux(k, mid) ==
    LET v1 == GetV(1)
        i1 == CHOOSE id \in GetAll("I") : Cluster(id).size = 1
    IN IF k \in {v1, i1} THEN -(mid[v1] * mid[i1]) ELSE 0

\* the terms the loop adds to the row of an interior grid point, in order
InteriorTerms == << "incidentFlux", "computeDiffusion", "computeAdvection",
                    "computeTrapMutation", "getTotalFlux" >>

\* the row of F at an interior grid point after the loop body: each term is
\* added to what the row held
InteriorRow(g, sp, xi, c, row, incident, rate) ==
    LET mid == c[xi]
        left == c[xi - 1]
        right == c[xi + 1]
        hxLeft == g[xi + 1] - g[xi]
        hxRight == g[xi + 2] - g[xi + 1]
    IN [k \in HandlerDofs |->
          row[k]
          + (IF k = HeliumIndex THEN incident[xi] ELSE 0)
          + DiffusionTerm(k, mid, left, right, hxLeft, hxRight)
          + AdvectionTerm(k, mid, right, hxRight, g[xi + 1] - g[sp + 1])
          + TrapMutationTerm(k, xi, sp, mid, rate)
          + TotalFlux(k, mid)]

\* a test that takes the temperature for changed only while nothing is cached
ChangedFromNothing(temperature, last) == last = 0
\* a test that takes the temperature for changed at every grid point
ChangedAlways(temperature, last) == TRUE

\* if (!xolotlCore::equal(temperature, lastTemperature)): the tolerance of
\* equal is far below one unit of temperature
TemperatureChanged(temperature, last) == temperature # last

\* a handler that keeps the rate it has
KeepTrapMutationRate(rate, temperature) == rate

\* mutationHandler->updateTrapMutationRate(network)
UpdateTrapMutationRate(rate, temperature) == TrapMutationRate(temperature)

\* the temperature test along the loop, on the handler state h of the process:
\* if (!equal(temperature, lastTemperature)) { network->setTemperature(temperature);
\* mutationHandler->updateTrapMutationRate(network); lastTemperature = temperature; }
\* and then the fluxes of the row are evaluated with the rates in force
RECURSIVE TemperatureSweep(_, _, _)
TemperatureSweep(h, temps, xis) ==
    IF xis = {} THEN h
    ELSE LET xi == CHOOSE x \in xis : \A y \in xis : x <= y
             set == IF TemperatureChanged(temps[xi], h.last)
                    THEN [h EXCEPT !.network = temps[xi],
                                   !.updates = @ + 1,
                                   !.rate = UpdateTrapMutationRate(@, temps[xi]),
                                   !.rateUpdates = @ + 1,
                                   !.last = temps[xi]]
                    ELSE h
             rates == [network |-> set.network, rate |-> set.rate, last |-> set.last]
         IN TemperatureSweep([set EXCEPT !.at[xi] = rates], temps, xis \ {xi})

UpdateConcentration(p) ==
    /\ rhsPc[p] = "called"
    /\ LET owned == {xi \in 0 .. (Mx - 1) : Owns(p, xi)}
           interior == {xi \in owned : ~IsBoundary(xi, surfacePosition, XSize(grid))}
           sweep == TemperatureSweep([last |-> lastTemperature[p],
                                      network |-> networkTemperature[p],
                                      updates |-> rateUpdates[p],
                                      rate |-> mutationRate[p],
                                      rateUpdates |-> mutationRateUpdates[p],
                                      at |-> ratesAt],
                                     temperatures, interior)
       IN /\ updatedConcs' =
                [xi \in DOMAIN updatedConcs |->
                    IF xi \notin owned THEN updatedConcs[xi]
                    ELSE IF xi \in interior
                    THEN InteriorRow(grid, surfacePosition, xi, concs,
                                     updatedConcs[xi], incidentFluxVector,
                                     sweep.at[xi].rate)
                    ELSE BoundaryRow(concs[xi])]
          /\ mutationAdded' =
                [xi \in DOMAIN mutationAdded |->
                    IF xi \in interior
                    THEN [k \in HandlerDofs |->
                            TrapMutationTerm(k, xi, surfacePosition, concs[xi],
                                             sweep.at[xi].rate)]
                    ELSE mutationAdded[xi]]
          /\ termCalls' = [xi \in DOMAIN termCalls |->
                             IF xi \in interior THEN InteriorTerms ELSE termCalls[xi]]
          /\ lastTemperature' = [lastTemperature EXCEPT ![p] = sweep.last]
          /\ networkTemperature' = [networkTemperature EXCEPT ![p] = sweep.network]
          /\ rateUpdates' = [rateUpdates EXCEPT ![p] = sweep.updates]
          /\ mutationRate' = [mutationRate EXCEPT ![p] = sweep.rate]
          /\ mutationRateUpdates' = [mutationRateUpdates EXCEPT ![p] = sweep.rateUpdates]
          /\ ratesAt' = sweep.at
    /\ rhsPc' = [rhsPc EXCEPT ![p] = "returned"]
    /\ UNCHANGED << config, concs, incidentFluxVector, temperatures, evaluation,
                    rateUpdatesAtCall, temperatureHistory >>
    /\ UNCHANGED << controller, assembly, restart, monitors, elsewhere >>

\* the concentrations of one grid point as the handler sees them
HandlerVec(vec) == [k \in HandlerDofs |-> vec[k]]

\* the local vectors handed to updateConcentration: a bubble everywhere, or
\* bubbles and interstitials in turn; nothing on the ghost points
LocalVectors(mx) ==
    { [xi \in -1 .. mx |-> IF xi \in 0 .. (mx - 1)
                           THEN [HandlerVec(HeRichVec) EXCEPT ![GetHe(2)] = 30 + xi]
                           ELSE HandlerVec(ZeroVec)],
      [xi \in -1 .. mx |-> IF xi \notin 0 .. (mx - 1) THEN HandlerVec(ZeroVec)
                           ELSE IF xi % 2 = 0 THEN HandlerVec(HeLeanVec)
                           ELSE HandlerVec(IRichVec)] }

\* what F holds when the loop starts
StaleValues == {0, 9}
\* the incident flux at each grid point
IncidentFluxVectors(mx) == { [xi \in 0 .. (mx - 1) |-> 0],
                             [xi \in 0 .. (mx - 1) |-> mx - xi] }
\* the temperature at each grid point: uniform, or falling with depth
TemperatureProfiles(mx) == { [xi \in 0 .. (mx - 1) |-> 1000],
                             [xi \in 0 .. (mx - 1) |-> 1000 - 10 * xi] }
\* the temperature the network was loaded at
InitialTemperatures == {0, 1000}

\* residual evaluations the integrator asks for
MaxEvaluations == 2

InitResidual ==
    /\ grid \in GridChoices
    /\ initialVConc = 0
    /\ movingSurface \in BOOLEAN
    /\ bubbleBursting = FALSE
    /\ surfacePosition \in (IF movingSurface THEN {1, 2} ELSE {0})
    /\ rightOffset = 0
    /\ sputteringYield1D = 0
    /\ \E s \in Partitions(MxOf(grid)) :
          /\ xs = [p \in Procs |-> s[p + 1][1]]
          /\ xm = [p \in Procs |-> s[p + 1][2]]
    /\ ControllerStart
    /\ concs \in LocalVectors(MxOf(grid))
    /\ \E stale \in StaleValues :
          updatedConcs = [xi \in 0 .. (MxOf(grid) - 1) |-> [k \in HandlerDofs |-> stale]]
    /\ incidentFluxVector \in IncidentFluxVectors(MxOf(grid))
    /\ temperatures \in TemperatureProfiles(MxOf(grid))
    /\ lastTemperature = [p \in Procs |-> 0]
    /\ rateUpdates = [p \in Procs |-> 0]
    /\ termCalls = [xi \in 0 .. (MxOf(grid) - 1) |-> << >>]
    /\ \E t \in InitialTemperatures :
          /\ networkTemperature = [p \in Procs |-> t]
          /\ mutationRate = [p \in Procs |-> TrapMutationRate(t)]
    /\ mutationRateUpdates = [p \in Procs |-> 0]
    /\ ratesAt = [xi \in 0 .. (MxOf(grid) - 1) |-> NoRates]
    /\ mutationAdded = [xi \in 0 .. (MxOf(grid) - 1) |-> [k \in HandlerDofs |-> 0]]
    /\ evaluation = 1
    /\ rateUpdatesAtCall = [p \in Procs |-> 0]
    /\ temperatureHistory = << temperatures >>
    /\ rhsPc = [p \in Procs |-> "called"]
    /\ AssemblyStart
    /\ RestartStart
    /\ MonitorsStart

\* the integrator asks every process for the residual once more, at a later
\* time: F is cleared and the temperature handler may give another profile
RHSFunction ==
    /\ \A p \in Procs : rhsPc[p] = "returned"
    /\ evaluation < MaxEvaluations
    /\ evaluation' = evaluation + 1
    /\ temperatures' \in TemperatureProfiles(Mx)
    /\ updatedConcs' = [xi \in DOMAIN updatedConcs |-> [k \in HandlerDofs |-> 0]]
    /\ termCalls' = [xi \in DOMAIN termCalls |-> << >>]
    /\ ratesAt' = [xi \in DOMAIN ratesAt |-> NoRates]
    /\ mutationAdded' = [xi \in DOMAIN mutationAdded |-> [k \in HandlerDofs |-> 0]]
    /\ rateUpdatesAtCall' = rateUpdates
    /\ temperatureHistory' = Append(temperatureHistory, temperatures')
    /\ rhsPc' = [p \in Procs |-> "called"]
    /\ UNCHANGED << config, concs, incidentFluxVector, lastTemperature,
                    networkTemperature, rateUpdates, mutationRate,
                    mutationRateUpdates >>
    /\ UNCHANGED << controller, assembly, restart, monitors, elsewhere >>

NextResidual ==
    \/ \E p \in Procs : UpdateConcentration(p)
    \/ RHSFunction

SpecResidual == InitResidual /\ [][NextResidual]_vars

(***************************************************************************)
(* The Jacobian passes: computeOffDiagonalJacobian and                     *)
(* computeDiagonalJacobian, run by every process on the grid points it     *)
(* owns, with the rates its handler holds.  An entry of J is written as    *)
(* [xi, row, xj, col]: component row of grid point xi against component    *)
(* col of grid point xj.                                                   *)
(***************************************************************************)
\* the clusters computePartialsForDiffusion emits (diffIndices)
DiffIndices == {k \in HandlerDofs : DiffusionCoefficient(k) > 0}
\* the clusters computePartialsForAdvection emits (advecIndices)
AdvecIndices == GetAll("He")

\* MatSetValuesStencil of the diffusion and advection stencils at grid point xi
StencilEntries(xi) ==
    {[xi |-> xi, row |-> c, xj |-> xj, col |-> c] :
        c \in DiffIndices, xj \in {xi, xi - 1, xi + 1}}
    \cup {[xi |-> xi, row |-> c, xj |-> xj, col |-> c] :
        c \in AdvecIndices, xj \in {xi, xi + 1}}

ComputeOffDiagonalJacobian(p) ==
    /\ jacPc[p] = "called"
    /\ LET interior == {xi \in 0 .. (Mx - 1) :
                          Owns(p, xi) /\ ~IsBoundary(xi, surfacePosition, XSize(grid))}
       IN jacobian' = jacobian \cup UNION {StencilEntries(xi) : xi \in interior}
    /\ jacPc' = [jacPc EXCEPT ![p] = "off"]
    /\ UNCHANGED << config, controller, residual, mutationPartials, restart,
                    monitors, elsewhere >>

\* partials that name the interstitial before the product
ComputePartialsInterstitialFirst(xi, sp, rate) ==
    LET m == Mutating(xi, sp)
    IN [n |-> Len(m),
        indices |-> [j \in 0 .. (3 * Len(m) - 1) |->
                       CASE j % 3 = 0 -> m[(j \div 3) + 1].he
                         [] j % 3 = 1 -> InterstitialIndex
                         [] OTHER -> m[(j \div 3) + 1].hev],
        val |-> [j \in 0 .. (3 * Len(m) - 1) |-> IF j % 3 = 1 THEN -rate ELSE rate]]

\* computePartialsForTrapMutation: the number of mutating helium clusters
\* and, for each, the ids (He_s, product, I_1) and the values (-k, +k, +k)
ComputePartialsForTrapMutation(xi, sp, rate) ==
    LET m == Mutating(xi, sp)
    IN [n |-> Len(m),
        indices |-> [j \in 0 .. (3 * Len(m) - 1) |->
                       CASE j % 3 = 0 -> m[(j \div 3) + 1].he
                         [] j % 3 = 1 -> m[(j \div 3) + 1].hev
                         [] OTHER -> InterstitialIndex],
        val |-> [j \in 0 .. (3 * Len(m) - 1) |-> IF j % 3 = 0 THEN -rate ELSE rate]]

\* the three MatSetValuesStencil calls of each mutating cluster, in order:
\* row.c = mutationIndices[3 i], then [3 i + 1], then [3 i + 2], each against
\* col.c = mutationIndices[3 i] with the value mutationVals[3 i + j]
MutationStamps(xi, partials) ==
    [j \in 1 .. (3 * partials.n) |->
        [xi |-> xi, row |-> partials.indices[j - 1], xj |-> xi,
         col |-> partials.indices[3 * ((j - 1) \div 3)],
         val |-> partials.val[j - 1]]]

\* the pattern of a stamp
Entry(stamp) == [xi |-> stamp.xi, row |-> stamp.row, xj |-> stamp.xj, col |-> stamp.col]

\* the rows and columns the reactions of the network couple: He_s and V_v
\* with HeV(s,v), He with V, the clusters of one type with each other, V
\* with I, and every cluster with itself
Reacting(k, j) ==
    \/ /\ Cluster(k).type = "PSIMixed"
       /\ \/ Cluster(j).type = "He" /\ Cluster(j).size = Cluster(k).he
          \/ Cluster(j).type = "V" /\ Cluster(j).size = Cluster(k).v
    \/ /\ Cluster(j).type = "PSIMixed"
       /\ \/ Cluster(k).type = "He" /\ Cluster(k).size = Cluster(j).he
          \/ Cluster(k).type = "V" /\ Cluster(k).size = Cluster(j).v
    \/ /\ Cluster(k).type = "He" /\ Cluster(j).type = "V"
    \/ /\ Cluster(k).type = "V" /\ Cluster(j).type = "He"
    \/ /\ Cluster(k).type = Cluster(j).type
       /\ Cluster(k).type \in {"He", "V", "I"}
    \/ {Cluster(k).type, Cluster(j).type} = {"V", "I"}

\* getDiagonalFill(dfill, dof * dof): the pairs (row, column) of the block
\* of one grid point, taken from the network in createSolverContext, before
\* initializeConcentration hands the network to mutationHandler->initialize
DFill == {<<k, j>> \in HandlerDofs \X HandlerDofs : k = j \/ Reacting(k, j)}

\* initializeOFill and advectionHandler->initialize: the pairs (row, column)
\* of the block that couples a grid point with its neighbours
OFill == {<<c, c>> : c \in DiffIndices \cup AdvecIndices}

\* dFillMap.at(reactantIndex): the columns of the row of a reactant
DFillMap(k) == {j \in HandlerDofs : <<k, j>> \in DFill}

\* the columns getPartialDerivatives of reactant k adds to: the reactant
\* itself and the clusters it reacts with, which is its connectivity
WrittenColumns(k) == {j \in HandlerDofs : j = k \/ Reacting(k, j)}

\* reactant->getPartialDerivatives(partials): the partial derivatives are
\* added to the columns of the reactant; stray holds the columns outside its
\* connectivity it adds to as well
GetPartialDerivatives(k, conc, partials, stray) ==
    [j \in WrittenColumns(k) \cup stray |-> partials[j] + 1 + conc[j]] @@ partials

\* a loop over the column ids that resets nothing
KeepColumns(partials, cols) == partials

\* clusterPartials[pdColIdsVector[j]] = 0.0 for each j
ResetColumns(partials, cols) ==
    [j \in cols |-> 0] @@ partials

\* the calls of getPartialDerivatives of one pass, in order: the interior
\* grid points from xs on, and the reactants of the network at each
PartialsOrder(interior) ==
    LET xis == SortedSeq(interior)
        dof == Cardinality(HandlerDofs)
    IN [c \in 1 .. (Len(xis) * dof) |->
           [xi |-> xis[((c - 1) \div dof) + 1], row |-> (c - 1) % dof]]

\* the loop over the grid points and the reactants from call n on: what
\* clusterPartials holds at the end and what each call saw and left
RECURSIVE PartialsLoop(_, _, _, _, _, _)
PartialsLoop(order, n, conc, partials, made, stray) ==
    IF n > Len(order)
    THEN [partials |-> partials, calls |-> made]
    ELSE LET row == order[n].row
             after == GetPartialDerivatives(row, conc[order[n].xi], partials,
                                            IF n = stray.at THEN {stray.col} ELSE {})
             pdColIdsVector == DFillMap(row)
             left == ResetColumns(after, pdColIdsVector)
         IN PartialsLoop(order, n + 1, conc, left,
                         Append(made, 
                                [xi |-> order[n].xi, row |-> row,
                                 before |-> partials, after |-> after,
                                 reactingPartials |-> [j \in pdColIdsVector |-> after[j]],
                                 left |-> left]),
                         stray)

\* what getPartialDerivatives may do in a pass: keep to the columns of each
\* reactant, or add to one column outside them in the first or in the last
\* call
StrayWrites(order) ==
    {[at |-> 0, col |-> 0]}
    \cup {[at |-> n, col |-> CHOOSE c \in HandlerDofs \ DFillMap(order[n].row) :
                               \A d \in HandlerDofs \ DFillMap(order[n].row) : c <= d] :
            n \in {m \in {1, Len(order)} :
                      m \in DOMAIN order /\ HandlerDofs \ DFillMap(order[m].row) # {}}}

ComputeDiagonalJacobian(p) ==
    /\ jacPc[p] = "off"
    /\ LET interior == {xi \in 0 .. (Mx - 1) :
                          Owns(p, xi) /\ ~IsBoundary(xi, surfacePosition, XSize(grid))}
           reactions == {[xi |-> xi, row |-> i, xj |-> xi, col |-> c] :
                            xi \in interior, i \in HandlerDofs, c \in HandlerDofs}
           partials == [xi \in interior |->
                          ComputePartialsForTrapMutation(xi, surfacePosition,
                                                         mutationRate[p])]
           stamps == [xi \in interior |-> MutationStamps(xi, partials[xi])]
           order == PartialsOrder(interior)
       IN /\ \E stray \in StrayWrites(order) :
                LET loop == PartialsLoop(order, 1, concs, clusterPartials[p],
                                         partialsCalls[p], stray)
                IN /\ clusterPartials' = [clusterPartials EXCEPT ![p] = loop.partials]
                   /\ partialsCalls' = [partialsCalls EXCEPT ![p] = loop.calls]
          /\ jacobian' =
                jacobian
                \cup {e \in reactions : e.col \in DFillMap(e.row)}
                \cup UNION {{Entry(stamps[xi][j]) : j \in DOMAIN stamps[xi]} :
                              xi \in interior}
          /\ mutationPartials' =
                [xi \in DOMAIN mutationPartials |->
                    IF xi \in interior
                    THEN [n |-> partials[xi].n, indices |-> partials[xi].indices,
                          val |-> partials[xi].val, stamps |-> stamps[xi]]
                    ELSE mutationPartials[xi]]
    /\ jacPc' = [jacPc EXCEPT ![p] = "done"]
    /\ UNCHANGED << config, controller, residual, restart, monitors, stride,
                    catalogue, program, heconc, reeval >>

\* the temperatures the handlers may hold the rates of
HandlerTemperatures == {500, 1000}

\* the Jacobian is asked for after a residual evaluation
InitJacobian ==
    /\ grid \in GridChoices
    /\ initialVConc = 0
    /\ movingSurface \in BOOLEAN
    /\ bubbleBursting = FALSE
    /\ surfacePosition \in (IF movingSurface THEN {1, 2} ELSE {0})
    /\ rightOffset = 0
    /\ sputteringYield1D = 0
    /\ \E s \in Partitions(MxOf(grid)) :
          /\ xs = [p \in Procs |-> s[p + 1][1]]
          /\ xm = [p \in Procs |-> s[p + 1][2]]
    /\ ControllerStart
    /\ concs \in LocalVectors(MxOf(grid))
    /\ updatedConcs = [xi \in 0 .. (MxOf(grid) - 1) |-> [k \in HandlerDofs |-> 0]]
    /\ incidentFluxVector = [xi \in 0 .. (MxOf(grid) - 1) |-> 0]
    /\ \E t \in HandlerTemperatures :
          /\ temperatures = [xi \in 0 .. (MxOf(grid) - 1) |-> t]
          /\ lastTemperature = [p \in Procs |-> t]
          /\ networkTemperature = [p \in Procs |-> t]
          /\ mutationRate = [p \in Procs |-> TrapMutationRate(t)]
    /\ rateUpdates = [p \in Procs |-> 1]
    /\ mutationRateUpdates = [p \in Procs |-> 1]
    /\ termCalls = [xi \in 0 .. (MxOf(grid) - 1) |-> << >>]
    /\ ratesAt = [xi \in 0 .. (MxOf(grid) - 1) |-> NoRates]
    /\ mutationAdded = [xi \in 0 .. (MxOf(grid) - 1) |-> [k \in HandlerDofs |-> 0]]
    /\ evaluation = 1
    /\ rateUpdatesAtCall = [p \in Procs |-> 0]
    /\ temperatureHistory = << temperatures >>
    /\ rhsPc = [p \in Procs |-> "returned"]
    /\ jacPc = [p \in Procs |-> "called"]
    /\ jacobian = {}
    /\ mutationPartials = [xi \in 0 .. (MxOf(grid) - 1) |-> NoPartials]
    /\ RestartStart
    /\ MonitorsStart

NextJacobian ==
    \/ \E p \in Procs : ComputeOffDiagonalJacobian(p)
    \/ \E p \in Procs : ComputeDiagonalJacobian(p)

SpecJacobian == InitJacobian /\ [][NextJacobian]_vars

(***************************************************************************)
(* One stage of the implicit integrator: every process evaluates the       *)
(* residual, then the Jacobian is asked for at the same time and on the    *)
(* same local vector.                                                      *)
(***************************************************************************)
\* the integrator asks every process for the Jacobian once the residual of
\* the stage has been evaluated
RHSJacobian ==
    /\ \A p \in Procs : rhsPc[p] = "returned"
    /\ \A p \in Procs : jacPc[p] = "idle"
    /\ jacPc' = [p \in Procs |-> "called"]
    /\ UNCHANGED << jacobian, mutationPartials >>
    /\ UNCHANGED << config, controller, residual, restart, monitors, elsewhere >>

\* the first residual evaluation of a run, at a uniform temperature or at
\* one that falls with depth
InitStage ==
    /\ grid \in GridChoices
    /\ initialVConc = 0
    /\ movingSurface \in BOOLEAN
    /\ bubbleBursting = FALSE
    /\ surfacePosition \in (IF movingSurface THEN {1, 2} ELSE {0})
    /\ rightOffset = 0
    /\ sputteringYield1D = 0
    /\ \E s \in Partitions(MxOf(grid)) :
          /\ xs = [p \in Procs |-> s[p + 1][1]]
          /\ xm = [p \in Procs |-> s[p + 1][2]]
    /\ ControllerStart
    /\ concs \in LocalVectors(MxOf(grid))
    /\ updatedConcs = [xi \in 0 .. (MxOf(grid) - 1) |-> [k \in HandlerDofs |-> 0]]
    /\ incidentFluxVector = [xi \in 0 .. (MxOf(grid) - 1) |-> 0]
    /\ temperatures \in TemperatureProfiles(MxOf(grid))
    /\ lastTemperature = [p \in Procs |-> 0]
    /\ rateUpdates = [p \in Procs |-> 0]
    /\ termCalls = [xi \in 0 .. (MxOf(grid) - 1) |-> << >>]
    /\ \E t \in InitialTemperatures :
          /\ networkTemperature = [p \in Procs |-> t]
          /\ mutationRate = [p \in Procs |-> TrapMutationRate(t)]
    /\ mutationRateUpdates = [p \in Procs |-> 0]
    /\ ratesAt = [xi \in 0 .. (MxOf(grid) - 1) |-> NoRates]
    /\ mutationAdded = [xi \in 0 .. (MxOf(grid) - 1) |-> [k \in HandlerDofs |-> 0]]
    /\ evaluation = 1
    /\ rateUpdatesAtCall = [p \in Procs |-> 0]
    /\ temperatureHistory = << temperatures >>
    /\ rhsPc = [p \in Procs |-> "called"]
    /\ AssemblyStart
    /\ RestartStart
    /\ MonitorsStart

NextStage ==
    \/ \E p \in Procs : UpdateConcentration(p)
    \/ RHSJacobian
    \/ \E p \in Procs : ComputeOffDiagonalJacobian(p)
    \/ \E p \in Procs : ComputeDiagonalJacobian(p)

SpecStage == InitStage /\ [][NextStage]_vars

(***************************************************************************)
(* The checkpoint.  startStop1D writes a timestep group from the solution  *)
(* and the counters of the run; a run started from the group goes through  *)
(* initializeConcentration and setupPetsc1DMonitor.  Concentrations are in *)
(* units of 1e-17 here, so that 1.0e-16 is 10.                             *)
(***************************************************************************)
\* the counters of the surface, of the bottom, and the time of the last step
counters == << previousTime, nInterstitial1D, previousIFlux1D, nHelium1D,
               previousHeFlux1D, nDeuterium1D, previousDFlux1D, nTritium1D,
               previousTFlux1D >>
\* what the integrator and the event function hold
stepping == << time, tsNumber, fvalue, depthPositions1D, surfaceProc,
               bottomProc, bcastSurface, bcastBottom, surfaceOffset,
               convergedReason, surfacePos, nGridPoints, calls, collectives,
               pc, atEntry, atStep >>

\* std::fabs(gridPointSolution[l]) > 1.0e-16
WriteThreshold == 10
Stored(value) == (IF value < 0 THEN -value ELSE value) > WriteThreshold

\* concs[i].emplace_back(l, gridPointSolution[l]) for l in 0 .. dof - 1
Pairs(vec) == {<< l, vec[l] >> : l \in {k \in Dofs : Stored(vec[k])}}

\* the counters of the bottom as writeBottom1D takes them
BottomCounters(p) == << nHelium1D[p], previousHeFlux1D[p], nDeuterium1D[p],
                        previousDFlux1D[p], nTritium1D[p], previousTFlux1D[p] >>

\* addTimestepGroup, writeGrid, writeSurface1D, writeBottom1D
Header(p) ==
    [grid |-> grid,
     previousTime |-> previousTime[p],
     surface |-> IF movingSurface
                 THEN << nInterstitial1D[p], previousIFlux1D[p] >> ELSE << >>,
     bottom |-> IF rightOffset = 1 THEN BottomCounters(p) ELSE << >>]

StartStop1D(p) ==
    /\ ckPc[p] = "running"
    /\ checkpointFile' =
          [header |-> Header(p),
           concs |-> [xi \in 0 .. (Mx - 1) |->
                        IF Owns(p, xi) THEN Pairs(solution[xi])
                        ELSE checkpointFile.concs[xi]]]
    /\ written' = [solution |-> solution, grid |-> grid,
                   surface |-> << nInterstitial1D[p], previousIFlux1D[p] >>,
                   bottom |-> BottomCounters(p)]
    /\ ckPc' = [ckPc EXCEPT ![p] = "written"]
    /\ UNCHANGED << config, controller, residual, assembly, monitors, elsewhere, hasConcentrations,
                    singleVacancyCluster, flagHeRetention >>

\* what a vector holds before initializeConcentration has filled it
FreshVec == [k \in Dofs |-> 9]

\* a run is started, from the timestep group or from nothing: the file-scope
\* counters have their initial values
Restart ==
    /\ \A p \in Procs : ckPc[p] = "written"
    /\ hasConcentrations' \in BOOLEAN
    /\ solution' = [xi \in 0 .. (Mx - 1) |-> FreshVec]
    /\ previousTime' = [p \in Procs |-> 0]
    /\ nInterstitial1D' = [p \in Procs |-> 0]
    /\ previousIFlux1D' = [p \in Procs |-> 0]
    /\ nHelium1D' = [p \in Procs |-> 0]
    /\ previousHeFlux1D' = [p \in Procs |-> 0]
    /\ nDeuterium1D' = [p \in Procs |-> 0]
    /\ previousDFlux1D' = [p \in Procs |-> 0]
    /\ nTritium1D' = [p \in Procs |-> 0]
    /\ previousTFlux1D' = [p \in Procs |-> 0]
    /\ ckPc' = [p \in Procs |-> "started"]
    /\ UNCHANGED << config, stepping, residual, assembly, monitors, elsewhere, checkpointFile,
                    written, singleVacancyCluster, flagHeRetention >>

\* int vacancyIndex = -1: network->get(vType, 1) of a network without V_1
NoCluster == -1

\* a seed that reaches the surface itself
SeedsVacancyFromSurface(i, sp, xSize, cluster) ==
    i >= sp /\ i < xSize - 1 /\ cluster # NoCluster

\* if (i > surfacePosition && i < xSize - 1 && singleVacancyCluster)
SeedsVacancy(i, sp, xSize, cluster) ==
    i > sp /\ i < xSize - 1 /\ cluster # NoCluster

\* the first loop: concOffset[n] = 0.0 for n in 0 .. dof - 1, then
\* concOffset[vacancyIndex] = initialVConc; dof is the block size of the
\* distributed array, the one startStop1D writes
InitialRow(i, sp, xSize, cluster, vConc) ==
    [n \in Dofs |-> IF SeedsVacancy(i, sp, xSize, cluster) /\ n = cluster
                    THEN vConc ELSE 0]

\* concOffset[(int) concVector.at(l).at(0)] = concVector.at(l).at(1)
Overwrite(row, pairs) ==
    [n \in Dofs |-> IF \E pair \in pairs : pair[1] = n
                    THEN (CHOOSE pair \in pairs : pair[1] = n)[2]
                    ELSE row[n]]

InitializeConcentration(p) ==
    /\ ckPc[p] = "started"
    /\ solution' =
          [xi \in 0 .. (Mx - 1) |->
              IF ~Owns(p, xi) THEN solution[xi]
              ELSE LET row == InitialRow(xi, surfacePosition, XSize(grid),
                                         singleVacancyCluster, initialVConc)
                   IN IF hasConcentrations
                      THEN Overwrite(row, checkpointFile.concs[xi])
                      ELSE row]
    /\ ckPc' = [ckPc EXCEPT ![p] = "initialized"]
    /\ UNCHANGED << config, counters, stepping, residual, assembly, monitors, elsewhere,
                    checkpointFile, written, hasConcentrations,
                    singleVacancyCluster, flagHeRetention >>

\* setupPetsc1DMonitor with loopNumber == 0: the reads of the last timestep
\* group
SetupPetsc1DMonitor(p) ==
    /\ ckPc[p] = "initialized"
    /\ LET header == checkpointFile.header
           surfaceRead == movingSurface /\ hasConcentrations
           retentionRead == flagHeRetention /\ hasConcentrations
           bottomRead == retentionRead /\ rightOffset = 1
           Read(counter, value, read) ==
               IF read THEN [counter EXCEPT ![p] = value] ELSE counter
       IN /\ previousTime' = Read(previousTime, header.previousTime, hasConcentrations)
          /\ nInterstitial1D' = Read(nInterstitial1D, header.surface[1], surfaceRead)
          /\ previousIFlux1D' = Read(previousIFlux1D, header.surface[2], surfaceRead)
          /\ nHelium1D' = Read(nHelium1D, header.bottom[1], bottomRead)
          /\ previousHeFlux1D' = Read(previousHeFlux1D, header.bottom[2], bottomRead)
          /\ nDeuterium1D' = Read(nDeuterium1D, header.bottom[3], bottomRead)
          /\ previousDFlux1D' = Read(previousDFlux1D, header.bottom[4], bottomRead)
          /\ nTritium1D' = Read(nTritium1D, header.bottom[5], bottomRead)
          /\ previousTFlux1D' = Read(previousTFlux1D, header.bottom[6], bottomRead)
    /\ ckPc' = [ckPc EXCEPT ![p] = "setup"]
    /\ UNCHANGED << config, solution, stepping, residual, assembly, monitors, elsewhere,
                    checkpointFile, written, hasConcentrations,
                    singleVacancyCluster, flagHeRetention >>

\* the rows of the solutions a timestep group is written from: vacancies and
\* helium well above 1e-16, interstitials and no vacancy, and a bubble with
\* populations at and below 1e-16
VRichVec == [k \in Dofs |-> IF k = GetV(1) THEN 900 ELSE IF k = 0 THEN 400 ELSE 0]
CheckpointSolutions(mx) ==
    { [xi \in 0 .. (mx - 1) |-> vec] : vec \in {VRichVec, IRichVec, HeRichVec} }

InitCheckpoint ==
    /\ grid = ZeroBased(<< 0, 1, 2, 4, 6, 8, 10 >>)
    /\ initialVConc \in InitialVConcValues
    /\ movingSurface \in BOOLEAN
    /\ bubbleBursting = ~movingSurface
    /\ surfacePosition \in (IF movingSurface THEN {0, 1} ELSE {0})
    /\ rightOffset \in {0, 1}
    /\ sputteringYield1D = 0
    /\ \E s \in Partitions(MxOf(grid)) :
          /\ xs = [p \in Procs |-> s[p + 1][1]]
          /\ xm = [p \in Procs |-> s[p + 1][2]]
    /\ flagHeRetention \in BOOLEAN
    /\ singleVacancyCluster \in {GetV(1), NoCluster}
    /\ solution \in CheckpointSolutions(MxOf(grid))
    /\ previousTime = [p \in Procs |-> 4]
    /\ nInterstitial1D = [p \in Procs |-> IF movingSurface THEN 37 ELSE 0]
    /\ previousIFlux1D = [p \in Procs |-> IF movingSurface THEN 5 ELSE 0]
    /\ LET bottom == rightOffset = 1 /\ flagHeRetention
       IN /\ nHelium1D = [p \in Procs |-> IF bottom THEN 3 ELSE 0]
          /\ previousHeFlux1D = [p \in Procs |-> IF bottom THEN 1 ELSE 0]
          /\ nDeuterium1D = [p \in Procs |-> IF bottom THEN 2 ELSE 0]
          /\ previousDFlux1D = [p \in Procs |-> IF bottom THEN 1 ELSE 0]
          /\ nTritium1D = [p \in Procs |-> IF bottom THEN 6 ELSE 0]
          /\ previousTFlux1D = [p \in Procs |-> IF bottom THEN 2 ELSE 0]
    /\ SteppingStart
    /\ ResidualStart
    /\ rhsPc = [p \in Procs |-> "unused"]
    /\ checkpointFile = [header |-> << >>,
                         concs |-> [xi \in 0 .. (MxOf(grid) - 1) |-> {}]]
    /\ written = << >>
    /\ hasConcentrations = FALSE
    /\ ckPc = [p \in Procs |-> "running"]
    /\ MonitorsStart

NextCheckpoint ==
    \/ \E p \in Procs : StartStop1D(p)
    \/ Restart
    \/ \E p \in Procs : InitializeConcentration(p)
    \/ \E p \in Procs : SetupPetsc1DMonitor(p)

SpecCheckpoint == InitCheckpoint /\ [][NextCheckpoint]_vars

(***************************************************************************)
(* postEventFunction1D statement by statement: computeFluence, then        *)
(* monitorTime, then the handling of the events.                           *)
(***************************************************************************)
\* the handling of the events with no monitor behind it
HandlingStartsAtEntry == "evDone"
\* where "if (nevents == 0)" stands: behind the call of monitorTime
HandlingStartsAt == "monitored"

\* ierr = computeFluence(ts, 0, time, solution, NULL);
ComputeFluenceCall(p) ==
    /\ pc[p] = "evDone"
    /\ calls' = [calls EXCEPT ![p] = @ \o << "computeFluence" >>]
    /\ pc' = [pc EXCEPT ![p] = "fluence"]
    /\ UNCHANGED << config, solution, counters, time, tsNumber, fvalue,
                    depthPositions1D, surfaceProc, bottomProc, bcastSurface,
                    bcastBottom, surfaceOffset, convergedReason, surfacePos,
                    nGridPoints, collectives, atEntry, atStep, outside >>

\* ierr = monitorTime(ts, 0, time, solution, NULL);
MonitorTimeCall(p) ==
    /\ pc[p] = "fluence"
    /\ previousTime' = MonitorTime(previousTime, p)
    /\ calls' = [calls EXCEPT ![p] = @ \o << "monitorTime" >>]
    /\ pc' = [pc EXCEPT ![p] = "monitored"]
    /\ UNCHANGED << config, solution, nInterstitial1D, previousIFlux1D,
                    nHelium1D, previousHeFlux1D, nDeuterium1D, previousDFlux1D,
                    nTritium1D, previousTFlux1D, time, tsNumber, fvalue,
                    depthPositions1D, surfaceProc, bottomProc, bcastSurface,
                    bcastBottom, surfaceOffset, convergedReason, surfacePos,
                    nGridPoints, collectives, atEntry, atStep, outside >>

HandleEventsCall(p) ==
    /\ HandleEvents(p, HandlingStartsAt, calls[p])
    /\ UNCHANGED previousTime

\* nInterstitial1D when the events are handled: within the threshold, and
\* above it
NInterstitialAtEvent == {0, 1000}

\* the state the integrator calls postEventFunction1D in: eventFunction1D
\* has set the switches and the bursting depths on every process
InitPostEvent ==
    /\ grid \in GridChoices
    /\ initialVConc \in InitialVConcValues
    /\ movingSurface \in BOOLEAN
    /\ bubbleBursting \in BOOLEAN
    /\ movingSurface \/ bubbleBursting
    /\ surfacePosition \in (IF movingSurface THEN {0, 1} ELSE {0})
    /\ rightOffset = 0
    /\ sputteringYield1D = 0
    /\ \E s \in Partitions(MxOf(grid)) :
          /\ xs = [p \in Procs |-> s[p + 1][1]]
          /\ xm = [p \in Procs |-> s[p + 1][2]]
    /\ solution \in Solutions(grid, surfacePosition)
    /\ atStep = solution
    /\ time = 1
    /\ tsNumber = 1
    /\ previousTime = [p \in Procs |-> 0]
    /\ \E n \in NInterstitialAtEvent :
          /\ (n # 0 => movingSurface)
          /\ nInterstitial1D = [p \in Procs |-> n]
    /\ previousIFlux1D = [p \in Procs |-> 0]
    /\ nHelium1D = [p \in Procs |-> 0]
    /\ previousHeFlux1D = [p \in Procs |-> 0]
    /\ nDeuterium1D = [p \in Procs |-> 0]
    /\ previousDFlux1D = [p \in Procs |-> 0]
    /\ nTritium1D = [p \in Procs |-> 0]
    /\ previousTFlux1D = [p \in Procs |-> 0]
    /\ LET found == [p \in Procs |->
                        IF bubbleBursting
                        THEN DepthSets(grid, surfacePosition, solution, 1,
                                       BurstCandidates(p))
                        ELSE {{}}]
       IN \E depths \in [Procs -> UNION {found[p] : p \in Procs}] :
          /\ \A p \in Procs : depths[p] \in found[p]
          /\ depthPositions1D = [p \in Procs |-> SortedSeq(depths[p])]
          /\ fvalue = [p \in Procs |->
                LET moving == IF movingSurface
                              THEN MovingSwitches(nInterstitial1D[p],
                                     ThresholdAt(grid, initialVConc, surfacePosition + 1))
                              ELSE << 1, 1 >>
                IN [i \in 0 .. 2 |-> IF i = 2 THEN (IF depths[p] # {} THEN 0 ELSE 1)
                                     ELSE moving[i + 1]]]
    /\ surfaceProc = [p \in Procs |-> -1]
    /\ bottomProc = [p \in Procs |-> -1]
    /\ bcastSurface = NoMsg
    /\ bcastBottom = NoMsg
    /\ surfaceOffset = [p \in Procs |-> 0]
    /\ convergedReason = [p \in Procs |-> "TS_CONVERGED_ITERATING"]
    /\ surfacePos = [p \in Procs |-> surfacePosition]
    /\ nGridPoints = [p \in Procs |-> 0]
    /\ calls = [p \in Procs |-> << >>]
    /\ collectives = [p \in Procs |-> << >>]
    /\ pc = [p \in Procs |-> "evDone"]
    /\ atEntry = [p \in Procs |-> [n |-> nInterstitial1D[p], flux |-> 0,
                                    surface |-> surfacePosition]]
    /\ ResidualStart
    /\ rhsPc = [p \in Procs |-> "unused"]
    /\ RestartStart
    /\ MonitorsStart

NextPostEvent ==
    \/ \E p \in Procs : ComputeFluenceCall(p)
    \/ \E p \in Procs : MonitorTimeCall(p)
    \/ \E p \in Procs : HandleEventsCall(p)

SpecPostEvent == InitPostEvent /\ [][NextPostEvent]_vars

(***************************************************************************)
(* checkNegative1D, the monitor of -check_negative, on the rows a process  *)
(* owns.  Concentrations and the threshold are in units of a fifth of the  *)
(* largest threshold here.                                                 *)
(***************************************************************************)
\* a clamp that takes zero for a positive value
ClampWithZero(value, thr) ==
    IF value < thr /\ value >= 0 THEN thr
    ELSE IF value > -thr /\ value < 0 THEN -thr
    ELSE value

\* if (gridPointSolution[l] < negThreshold1D && gridPointSolution[l] > 0.0)
\*     gridPointSolution[l] = negThreshold1D;
\* else if (gridPointSolution[l] > -negThreshold1D && gridPointSolution[l] < 0.0)
\*     gridPointSolution[l] = -negThreshold1D;
Clamp(value, thr) ==
    IF value < thr /\ value > 0 THEN thr
    ELSE IF value > -thr /\ value < 0 THEN -thr
    ELSE value

\* const int nClusters = network.size(); for (int l = 0; l < nClusters; l++)
ClampPoint(vec, thr) ==
    [l \in Dofs |-> IF l \in ClusterIds THEN Clamp(vec[l], thr) ELSE vec[l]]

MaxChecks == 2

CheckNegative1D(p) ==
    /\ negChecks[p] < MaxChecks
    /\ solution' = [xi \in 0 .. (Mx - 1) |->
                      IF Owns(p, xi) THEN ClampPoint(solution[xi], negThreshold1D)
                      ELSE solution[xi]]
    /\ negChecks' = [negChecks EXCEPT ![p] = @ + 1]
    /\ clampedOnce' = IF negChecks[p] = 0
                      THEN [xi \in 0 .. (Mx - 1) |->
                              IF Owns(p, xi) THEN solution'[xi] ELSE clampedOnce[xi]]
                      ELSE clampedOnce
    /\ UNCHANGED << config, counters, stepping, residual, assembly, restart, elsewhere,
                    negThreshold1D, printMaxClusterConc1D, mcPc, reduceBuf,
                    bcastPrint, warnings, monitorCalls, worked, concHistory >>

\* the thresholds: the default 1.0e-30, and one given with the option
NegThresholds == {1, 5}

\* rows with concentrations around the thresholds: below, at and above them
\* on either side of zero, and zero
SmallVec == [k \in Dofs |->
               CASE k = 0 -> 3 [] k = 1 -> -3 [] k = 2 -> 5 [] k = 3 -> -5
                 [] k = 4 -> 7 [] k = 5 -> -7 [] k = 6 -> 0 [] k = 7 -> 1
                 [] k = 8 -> -1 [] k = 9 -> 4 [] k = 10 -> -4 [] k = 11 -> 2
                 [] OTHER -> IF k = 12 THEN 3 ELSE IF k = 13 THEN -2 ELSE 0]
NegativeVec == [k \in Dofs |-> IF k \in ClusterIds THEN -2 - k ELSE 0]

NegativeSolutions(mx) ==
    { [xi \in 0 .. (mx - 1) |-> IF xi = at THEN first ELSE second] :
        at \in {0, mx - 1}, first \in {SmallVec, NegativeVec},
        second \in {ZeroVec, SmallVec} }

InitNegative ==
    /\ grid \in GridChoices
    /\ initialVConc = 0
    /\ movingSurface = FALSE
    /\ bubbleBursting = TRUE
    /\ surfacePosition = 0
    /\ rightOffset = 0
    /\ sputteringYield1D = 0
    /\ \E s \in Partitions(MxOf(grid)) :
          /\ xs = [p \in Procs |-> s[p + 1][1]]
          /\ xm = [p \in Procs |-> s[p + 1][2]]
    /\ solution \in NegativeSolutions(MxOf(grid))
    /\ previousTime = [p \in Procs |-> 0]
    /\ nInterstitial1D = [p \in Procs |-> 0]
    /\ previousIFlux1D = [p \in Procs |-> 0]
    /\ nHelium1D = [p \in Procs |-> 0]
    /\ previousHeFlux1D = [p \in Procs |-> 0]
    /\ nDeuterium1D = [p \in Procs |-> 0]
    /\ previousDFlux1D = [p \in Procs |-> 0]
    /\ nTritium1D = [p \in Procs |-> 0]
    /\ previousTFlux1D = [p \in Procs |-> 0]
    /\ SteppingStart
    /\ ResidualStart
    /\ rhsPc = [p \in Procs |-> "unused"]
    /\ RestartStart
    /\ negThreshold1D \in NegThresholds
    /\ negChecks = [p \in Procs |-> 0]
    /\ clampedOnce = solution
    /\ printMaxClusterConc1D = [p \in Procs |-> TRUE]
    /\ mcPc = [p \in Procs |-> "idle"]
    /\ reduceBuf = [p \in Procs |-> -1]
    /\ bcastPrint = NoMsg
    /\ warnings = << >>
    /\ monitorCalls = 0
    /\ worked = [p \in Procs |-> {}]
    /\ concHistory = << >>
    /\ ElsewhereStart

NextNegative == \E p \in Procs : CheckNegative1D(p)

SpecNegative == InitNegative /\ [][NextNegative]_vars

(***************************************************************************)
(* monitorMaxClusterConc1D, the monitor of -max_cluster_conc: every        *)
(* process looks at its grid points, process 0 gathers the outcome with    *)
(* MPI_Reduce, prints, and broadcasts printMaxClusterConc1D.               *)
(* Concentrations are in units of 1e-17 here.                              *)
(***************************************************************************)
\* psiNetwork.getMaxClusterSize(type)
GetMaxClusterSize(type) ==
    LET sizes == {Cluster(id).size : id \in GetAll(type)}
    IN CHOOSE m \in sizes : \A n \in sizes : n <= m

\* testComp[He] = maxHeVClusterSize - maxVClusterSize; testComp[V] = maxVClusterSize;
\* maxCluster = network.get(ReactantType::PSIMixed, testComp)
MaxCluster ==
    LET maxVClusterSize == GetMaxClusterSize("V")
        maxHeSize == GetMaxClusterSize("PSIMixed") - maxVClusterSize
    IN GetMixed(maxHeSize, maxVClusterSize)

\* if (maxClusterConc > 1.0e-16)
TooBigThreshold == 10

\* a test that takes a concentration of 1.0e-16 for too big
MaxClusterAtThreshold(p, sol) ==
    \E xi \in DOMAIN sol : Owns(p, xi) /\ sol[xi][MaxCluster] >= TooBigThreshold

\* the loop on the local grid points: maxClusterTooBig
MaxClusterTooBig(p, sol) ==
    \E xi \in DOMAIN sol : Owns(p, xi) /\ sol[xi][MaxCluster] > TooBigThreshold

\* the rows the integrator hands to the monitor: the largest cluster absent,
\* at 1.0e-16 and above it
MaxConcVec(c) == [k \in Dofs |-> IF k = MaxCluster THEN c ELSE IF k = 0 THEN 400 ELSE 0]
MaxConcSolutions(mx) ==
    { [xi \in 0 .. (mx - 1) |-> MaxConcVec(0)],
      [xi \in 0 .. (mx - 1) |-> IF xi = 1 THEN MaxConcVec(TooBigThreshold)
                                ELSE MaxConcVec(0)],
      [xi \in 0 .. (mx - 1) |-> IF xi = 0 THEN MaxConcVec(TooBigThreshold + 1)
                                ELSE MaxConcVec(0)],
      [xi \in 0 .. (mx - 1) |-> IF xi = mx - 1 THEN MaxConcVec(TooBigThreshold + 5)
                                ELSE MaxConcVec(0)] }

MaxCalls == 3

\* the integrator has taken a step and calls the monitor on every process
MonitorCall ==
    /\ \A p \in Procs : mcPc[p] \in {"idle", "returned"}
    /\ monitorCalls < MaxCalls
    /\ monitorCalls' = monitorCalls + 1
    /\ solution' \in MaxConcSolutions(Mx)
    /\ concHistory' = Append(concHistory, solution')
    /\ mcPc' = [p \in Procs |-> "called"]
    /\ reduceBuf' = [p \in Procs |-> -1]
    /\ bcastPrint' = NoMsg
    /\ UNCHANGED << config, counters, stepping, residual, assembly, restart, elsewhere,
                    negThreshold1D, negChecks, clampedOnce,
                    printMaxClusterConc1D, warnings, worked >>

\* monitorMaxClusterConc1D up to MPI_Reduce, which returns on a process
\* other than 0 once its value is handed over
MaxClusterLocal(p) ==
    /\ mcPc[p] = "called"
    /\ IF ~printMaxClusterConc1D[p]
       THEN \* Don't do anything if it was already printed
            /\ mcPc' = [mcPc EXCEPT ![p] = "returned"]
            /\ UNCHANGED << reduceBuf, worked >>
       ELSE /\ worked' = [worked EXCEPT ![p] = @ \cup {monitorCalls}]
            /\ reduceBuf' = [reduceBuf EXCEPT ![p] =
                               IF MaxClusterTooBig(p, solution) THEN 1 ELSE 0]
            /\ mcPc' = [mcPc EXCEPT ![p] = IF p = 0 THEN "reduce" ELSE "bcast"]
    /\ UNCHANGED << config, controller, residual, assembly, restart, elsewhere,
                    negThreshold1D, negChecks, clampedOnce,
                    printMaxClusterConc1D, bcastPrint, warnings, monitorCalls,
                    concHistory >>

\* process 0 from the return of MPI_Reduce on: MPI_LOR of what the processes
\* handed over, the warning, and its side of MPI_Bcast
MaxClusterRoot ==
    /\ mcPc[0] = "reduce"
    /\ \A q \in Procs : reduceBuf[q] # -1
    /\ LET tooBig == \E q \in Procs : reduceBuf[q] = 1
       IN /\ warnings' = IF tooBig THEN Append(warnings, monitorCalls) ELSE warnings
          /\ printMaxClusterConc1D' =
                [printMaxClusterConc1D EXCEPT ![0] = IF tooBig THEN FALSE ELSE @]
          /\ bcastPrint' = << printMaxClusterConc1D'[0] >>
    /\ mcPc' = [mcPc EXCEPT ![0] = "returned"]
    /\ UNCHANGED << config, controller, residual, assembly, restart, elsewhere,
                    negThreshold1D, negChecks, clampedOnce, reduceBuf,
                    monitorCalls, worked, concHistory >>

\* MPI_Bcast(&printMaxClusterConc1D, 1, MPI_C_BOOL, 0, PETSC_COMM_WORLD) on
\* the other processes
MaxClusterBcast(p) ==
    /\ p # 0
    /\ mcPc[p] = "bcast"
    /\ bcastPrint # NoMsg
    /\ printMaxClusterConc1D' =
          [printMaxClusterConc1D EXCEPT ![p] = Bcast(<< @ >>, bcastPrint)[1]]
    /\ mcPc' = [mcPc EXCEPT ![p] = "returned"]
    /\ UNCHANGED << config, controller, residual, assembly, restart, elsewhere,
                    negThreshold1D, negChecks, clampedOnce, reduceBuf,
                    bcastPrint, warnings, monitorCalls, worked, concHistory >>

InitMaxCluster ==
    /\ grid \in GridChoices
    /\ initialVConc = 0
    /\ movingSurface = FALSE
    /\ bubbleBursting = TRUE
    /\ surfacePosition = 0
    /\ rightOffset = 0
    /\ sputteringYield1D = 0
    /\ \E s \in Partitions(MxOf(grid)) :
          /\ xs = [p \in Procs |-> s[p + 1][1]]
          /\ xm = [p \in Procs |-> s[p + 1][2]]
    /\ ControllerStart
    /\ ResidualStart
    /\ rhsPc = [p \in Procs |-> "unused"]
    /\ RestartStart
    /\ MonitorsStart

NextMaxCluster ==
    \/ MonitorCall
    \/ \E p \in Procs : MaxClusterLocal(p)
    \/ MaxClusterRoot
    \/ \E p \in Procs : MaxClusterBcast(p)

SpecMaxCluster == InitMaxCluster /\ [][NextMaxCluster]_vars

(***************************************************************************)
(* The stride of startStop1D.  Times and the stride are in tenths of a     *)
(* second here: (time + dt / 10.0) / hdf5Stride1D is                       *)
(* (10 * time + dt) / (10 * hdf5Stride1D).                                 *)
(***************************************************************************)
\* (int) ((time + dt / 10.0) / hdf5Stride1D)
StrideIndex(t, dt, strideLength) == (10 * t + dt) \div (10 * strideLength)

\* if (((int) ((time + dt / 10.0) / hdf5Stride1D) <= hdf5Previous1D) && timestep > 0)
OffStride(t, dt, strideLength, previous, timestep) ==
    StrideIndex(t, dt, strideLength) <= previous /\ timestep > 0

\* if ((int) ((time + dt / 10.0) / hdf5Stride1D) > hdf5Previous1D) hdf5Previous1D++;
UpdatePrevious(t, dt, strideLength, previous) ==
    IF StrideIndex(t, dt, strideLength) > previous THEN previous + 1 ELSE previous

\* startStop1D down to the update of hdf5Previous1D; the timestep group is
\* written behind it
StartStopStride(p) ==
    /\ ssPc[p] = "called"
    /\ LET dt == time - previousTime[p]
       IN IF OffStride(time, dt, hdf5Stride1D, hdf5Previous1D[p], tsNumber)
          THEN UNCHANGED << hdf5Previous1D, dumps >>
          ELSE /\ hdf5Previous1D' = [hdf5Previous1D EXCEPT ![p] =
                     UpdatePrevious(time, dt, hdf5Stride1D, @)]
               /\ dumps' = [dumps EXCEPT ![p] =
                     Append(@, [timestep |-> tsNumber, time |-> time,
                                interval |-> StrideIndex(time, dt, hdf5Stride1D)])]
    /\ ssPc' = [ssPc EXCEPT ![p] = "dumped"]
    /\ UNCHANGED << config, controller, residual, assembly, restart, monitors, catalogue, program, scratch, heconc, reeval,
                    hdf5Stride1D >>

\* monitorTime, the last monitor of the step
MonitorTimeAfter(p) ==
    /\ ssPc[p] = "dumped"
    /\ previousTime' = MonitorTime(previousTime, p)
    /\ ssPc' = [ssPc EXCEPT ![p] = "returned"]
    /\ UNCHANGED << config, solution, nInterstitial1D, previousIFlux1D,
                    nHelium1D, previousHeFlux1D, nDeuterium1D, previousDFlux1D,
                    nTritium1D, previousTFlux1D, stepping, residual, assembly,
                    restart, monitors, catalogue, program, scratch, heconc, reeval, hdf5Stride1D, hdf5Previous1D, dumps >>

\* the steps of the integrator: within a stride, and over one and over three
StrideDts == {2, 12, 31}
MaxStrideSteps == 3

StrideStep ==
    /\ \A p \in Procs : ssPc[p] = "returned"
    /\ tsNumber < MaxStrideSteps
    /\ \E dt \in StrideDts : time' = time + dt
    /\ tsNumber' = tsNumber + 1
    /\ ssPc' = [p \in Procs |-> "called"]
    /\ UNCHANGED << config, solution, counters, fvalue, depthPositions1D,
                    surfaceProc, bottomProc, bcastSurface, bcastBottom,
                    surfaceOffset, convergedReason, surfacePos, nGridPoints,
                    calls, collectives, pc, atEntry, atStep, residual, assembly,
                    restart, monitors, catalogue, program, scratch, heconc, reeval, hdf5Stride1D, hdf5Previous1D, dumps >>

\* the strides: the default 1.0, and half of it
Strides == {10, 5}
\* the time the run starts at: 0, or the previous time of the timestep group
\* the run is started from
StartTimes == {0, 23}

InitStride ==
    /\ grid = ZeroBased(<< 0, 1, 2, 3, 4, 5, 6 >>)
    /\ initialVConc = 0
    /\ movingSurface = FALSE
    /\ bubbleBursting = TRUE
    /\ surfacePosition = 0
    /\ rightOffset = 0
    /\ sputteringYield1D = 0
    /\ \E s \in Partitions(MxOf(grid)) :
          /\ xs = [p \in Procs |-> s[p + 1][1]]
          /\ xm = [p \in Procs |-> s[p + 1][2]]
    /\ solution = [xi \in 0 .. (MxOf(grid) - 1) |-> ZeroVec]
    /\ atStep = solution
    /\ \E start \in StartTimes :
          /\ time = start
          /\ previousTime = [p \in Procs |-> start]
          /\ hdf5Stride1D \in Strides
          \* hdf5Previous1D = (int) (previousTime / hdf5Stride1D)
          /\ hdf5Previous1D = [p \in Procs |-> start \div hdf5Stride1D]
    /\ tsNumber = 0
    /\ nInterstitial1D = [p \in Procs |-> 0]
    /\ previousIFlux1D = [p \in Procs |-> 0]
    /\ nHelium1D = [p \in Procs |-> 0]
    /\ previousHeFlux1D = [p \in Procs |-> 0]
    /\ nDeuterium1D = [p \in Procs |-> 0]
    /\ previousDFlux1D = [p \in Procs |-> 0]
    /\ nTritium1D = [p \in Procs |-> 0]
    /\ previousTFlux1D = [p \in Procs |-> 0]
    /\ fvalue = [p \in Procs |-> AllOne]
    /\ depthPositions1D = [p \in Procs |-> << >>]
    /\ surfaceProc = [p \in Procs |-> -1]
    /\ bottomProc = [p \in Procs |-> -1]
    /\ bcastSurface = NoMsg
    /\ bcastBottom = NoMsg
    /\ surfaceOffset = [p \in Procs |-> 0]
    /\ convergedReason = [p \in Procs |-> "TS_CONVERGED_ITERATING"]
    /\ surfacePos = [p \in Procs |-> surfacePosition]
    /\ nGridPoints = [p \in Procs |-> 0]
    /\ calls = [p \in Procs |-> << >>]
    /\ collectives = [p \in Procs |-> << >>]
    /\ pc = [p \in Procs |-> "stepped"]
    /\ atEntry = [p \in Procs |-> [n |-> 0, flux |-> 0, surface |-> 0]]
    /\ ResidualStart
    /\ rhsPc = [p \in Procs |-> "unused"]
    /\ RestartStart
    /\ negThreshold1D = 0
    /\ negChecks = [p \in Procs |-> 0]
    /\ clampedOnce = << >>
    /\ printMaxClusterConc1D = [p \in Procs |-> TRUE]
    /\ mcPc = [p \in Procs |-> "idle"]
    /\ reduceBuf = [p \in Procs |-> -1]
    /\ bcastPrint = NoMsg
    /\ warnings = << >>
    /\ monitorCalls = 0
    /\ worked = [p \in Procs |-> {}]
    /\ concHistory = << >>
    /\ dumps = [p \in Procs |-> << >>]
    /\ ssPc = [p \in Procs |-> "called"]
    /\ CatalogueStart
    /\ ProgramStart
    /\ ScratchStart
    /\ HeConcStart
    /\ ReevalStart

NextStride ==
    \/ \E p \in Procs : StartStopStride(p)
    \/ \E p \in Procs : MonitorTimeAfter(p)
    \/ StrideStep

SpecStride == InitStride /\ [][NextStride]_vars

(***************************************************************************)
(* The catalogue of the minimal HeVI test network and toClusterMap: the    *)
(* reactants are stored He_1 .. He_10, V_1 .. V_10, I_1 .. I_10, then the  *)
(* HeV clusters; toClusterMap(index) finds the composition from the index  *)
(* alone.                                                                  *)
(***************************************************************************)
\* the largest He, V and I cluster, and the largest mixed cluster, of the
\* test network
SimpleMaxSize == 10

\* the composition of a reactant
Composition(he, v, i) == [He |-> he, V |-> v, I |-> i]

\* the HeV clusters with v vacancies, by increasing helium
MixedRow(v) == [he \in 1 .. (SimpleMaxSize - v) |-> Composition(he, v, 0)]

RECURSIVE MixedRows(_)
MixedRows(v) == IF v >= SimpleMaxSize THEN << >> ELSE MixedRow(v) \o MixedRows(v + 1)

\* network->reactants of getSimpleReactionNetwork()
Reactants ==
    [k \in 1 .. SimpleMaxSize |-> Composition(k, 0, 0)]
    \o [k \in 1 .. SimpleMaxSize |-> Composition(0, k, 0)]
    \o [k \in 1 .. SimpleMaxSize |-> Composition(0, 0, k)]
    \o MixedRows(1)

\* network->reactants->at(i), with getSpeciesSize of each species
ReactantAt(i) == Reactants[i + 1]

\* the row of the HeV clusters the index falls in: rows of 9, 8, .. 1 clusters
RECURSIVE MixedFromIndex(_, _)
MixedFromIndex(offset, v) ==
    IF offset < SimpleMaxSize - v THEN Composition(offset + 1, v, 0)
    ELSE MixedFromIndex(offset - (SimpleMaxSize - v), v + 1)

\* a map that counts the single-species clusters from zero
ToClusterMapFromZero(index) ==
    IF index < SimpleMaxSize THEN Composition(index, 0, 0)
    ELSE IF index < 2 * SimpleMaxSize THEN Composition(0, index - SimpleMaxSize, 0)
    ELSE IF index < 3 * SimpleMaxSize THEN Composition(0, 0, index - 2 * SimpleMaxSize)
    ELSE MixedFromIndex(index - 3 * SimpleMaxSize, 1)

\* network->toClusterMap(index)
ToClusterMap(index) ==
    IF index < SimpleMaxSize THEN Composition(index + 1, 0, 0)
    ELSE IF index < 2 * SimpleMaxSize THEN Composition(0, index - SimpleMaxSize + 1, 0)
    ELSE IF index < 3 * SimpleMaxSize
    THEN Composition(0, 0, index - 2 * SimpleMaxSize + 1)
    ELSE MixedFromIndex(index - 3 * SimpleMaxSize, 1)

\* cluster = network->toClusterMap(i)
ToClusterMapCall ==
    /\ clusterMap = << >>
    /\ clusterMap' = ToClusterMap(clusterId)
    /\ UNCHANGED << config, controller, residual, assembly, restart, monitors,
                    program, scratch, heconc, reeval, stride, clusterId >>

\* the test asks for the map of an id once more
AskAgain ==
    /\ clusterMap # << >>
    /\ clusterMap' = << >>
    /\ clusterId' \in 0 .. (Len(Reactants) - 1)
    /\ UNCHANGED << config, controller, residual, assembly, restart, monitors,
                    program, scratch, heconc, reeval, stride >>

InitClusterMap ==
    /\ grid = ZeroBased(<< 0, 1, 2, 3, 4, 5, 6 >>)
    /\ initialVConc = 0
    /\ movingSurface = FALSE
    /\ bubbleBursting = TRUE
    /\ surfacePosition = 0
    /\ rightOffset = 0
    /\ sputteringYield1D = 0
    /\ \E s \in Partitions(MxOf(grid)) :
          /\ xs = [p \in Procs |-> s[p + 1][1]]
          /\ xm = [p \in Procs |-> s[p + 1][2]]
    /\ ControllerStart
    /\ ResidualStart
    /\ rhsPc = [p \in Procs |-> "unused"]
    /\ RestartStart
    /\ negThreshold1D = 0
    /\ negChecks = [p \in Procs |-> 0]
    /\ clampedOnce = << >>
    /\ printMaxClusterConc1D = [p \in Procs |-> TRUE]
    /\ mcPc = [p \in Procs |-> "idle"]
    /\ reduceBuf = [p \in Procs |-> -1]
    /\ bcastPrint = NoMsg
    /\ warnings = << >>
    /\ monitorCalls = 0
    /\ worked = [p \in Procs |-> {}]
    /\ concHistory = << >>
    /\ StrideStart
    /\ clusterId \in 0 .. (Len(Reactants) - 1)
    /\ clusterMap = << >>
    /\ ProgramStart
    /\ ScratchStart
    /\ HeConcStart
    /\ ReevalStart

NextClusterMap == ToClusterMapCall \/ AskAgain

SpecClusterMap == InitClusterMap /\ [][NextClusterMap]_vars

(***************************************************************************)
(* main, run by every process, and the temperature handler factory.  The   *)
(* initializations of the material, of the performance data and of the     *)
(* visualization report a failure by returning false; what they report is  *)
(* an input.                                                               *)
(***************************************************************************)
ExitSuccess == 0
ExitFailure == 1

\* the conversion of an int to bool
ToBool(n) == n # 0

\* initMaterial, initTemp, initPerf, initViz: what the wrapper returns for
\* what the initialization returned
InitWrapper(initOK) == IF ~initOK THEN ToBool(ExitFailure) ELSE initOK

\* initializeTempHandler on process procId: whether it threw, the handler it
\* left in theTemperatureHandler and what it returned
InitializeTempHandler(procId, o, handler) ==
    LET done(h) == [thrown |-> FALSE, handler |-> h, ret |-> TRUE]
        threw == [thrown |-> TRUE, handler |-> handler, ret |-> TRUE]
    IN  IF o.useConstTemperatureHandlers /\ o.useTemperatureProfileHandlers
        THEN IF procId = 0 THEN threw ELSE done(handler)
        ELSE IF o.useConstTemperatureHandlers
        THEN IF o.bulkTemperature = 0
             THEN done("TemperatureHandler")
             ELSE done("TemperatureGradientHandler")
        ELSE IF o.useTemperatureProfileHandlers
        THEN done("TemperatureProfileHandler")
        ELSE IF o.useHeatEquationHandlers
        THEN IF o.constTemperature = 0
             THEN done("TemperatureHandler")
             ELSE IF o.dimensionNumber = 1
                  THEN done("HeatEquation1DHandler")
                  ELSE threw
        ELSE done("TemperatureHandler")

\* getTemperatureHandler without its test
GetTemperatureHandlerUnchecked(handler) == [thrown |-> FALSE, handler |-> handler]

\* getTemperatureHandler: throws when theTemperatureHandler is null
GetTemperatureHandler(handler) ==
    IF handler = "none"
    THEN [thrown |-> TRUE, handler |-> handler]
    ELSE [thrown |-> FALSE, handler |-> handler]

\* getMaterialHandler and xolotlPerf::getHandlerRegistry: they throw when the
\* initialization has left nothing to return
GetHandlerOf(initOK) == [thrown |-> ~initOK]

\* the catch of main: the message is printed and main returns EXIT_FAILURE
Caught(p, call) ==
    /\ mainPc' = [mainPc EXCEPT ![p] = "exited"]
    /\ exitCode' = [exitCode EXCEPT ![p] = ExitFailure]
    /\ thrownAt' = [thrownAt EXCEPT ![p] = call]

\* main up to MPI_Init: the options decide whether to run at all, then
\* initPerf
MainStart(p) ==
    /\ mainPc[p] = "idle"
    /\ IF ~opts.shouldRun
       THEN /\ mainPc' = [mainPc EXCEPT ![p] = "exited"]
            /\ exitCode' = [exitCode EXCEPT ![p] = opts.exitCode]
            /\ UNCHANGED initResults
       ELSE /\ initResults' = [initResults EXCEPT
                                 ![p] = [perf |-> InitWrapper(opts.perfInitOK)]]
            /\ mainPc' = [mainPc EXCEPT ![p] = "mpi"]
            /\ UNCHANGED exitCode
    /\ UNCHANGED << opts, theTemperatureHandler, thrownAt, solverSetUp >>
    /\ UNCHANGED << config, controller, residual, assembly, restart, monitors,
                    stride, catalogue, scratch, heconc, reeval >>

\* main: initMaterial, initTemp, initViz
InitHandlers(p) ==
    /\ mainPc[p] = "mpi"
    /\ LET material == InitWrapper(opts.materialInitOK)
           temp == InitializeTempHandler(p, opts, theTemperatureHandler[p])
           viz == InitWrapper(opts.vizInitOK)
       IN  /\ theTemperatureHandler' = [theTemperatureHandler EXCEPT ![p] = temp.handler]
           /\ IF temp.thrown
              THEN /\ initResults' = [initResults EXCEPT
                                        ![p] = [perf |-> @.perf, material |-> material]]
                   /\ Caught(p, "initializeTempHandler")
              ELSE /\ initResults' = [initResults EXCEPT
                                        ![p] = [perf |-> @.perf, material |-> material,
                                                temp |-> InitWrapper(temp.ret),
                                                viz |-> viz]]
                   /\ mainPc' = [mainPc EXCEPT ![p] = "initialized"]
                   /\ UNCHANGED << exitCode, thrownAt >>
    /\ UNCHANGED << opts, solverSetUp >>
    /\ UNCHANGED << config, controller, residual, assembly, restart, monitors,
                    stride, catalogue, scratch, heconc, reeval >>

\* main: getMaterialHandler, getTemperatureHandler, getHandlerRegistry
GetHandlers(p) ==
    /\ mainPc[p] = "initialized"
    /\ IF GetHandlerOf(opts.materialInitOK).thrown
       THEN Caught(p, "getMaterialHandler")
       ELSE IF GetTemperatureHandler(theTemperatureHandler[p]).thrown
       THEN Caught(p, "getTemperatureHandler")
       ELSE IF GetHandlerOf(opts.perfInitOK).thrown
       THEN Caught(p, "getHandlerRegistry")
       ELSE /\ mainPc' = [mainPc EXCEPT ![p] = "handlers"]
            /\ UNCHANGED << exitCode, thrownAt >>
    /\ UNCHANGED << opts, initResults, theTemperatureHandler, solverSetUp >>
    /\ UNCHANGED << config, controller, residual, assembly, restart, monitors,
                    stride, catalogue, scratch, heconc, reeval >>

\* main: setUpSolver and the network loader
SetUpSolver(p) ==
    /\ mainPc[p] = "handlers"
    /\ solverSetUp' = [solverSetUp EXCEPT ![p] = TRUE]
    /\ mainPc' = [mainPc EXCEPT ![p] = "setUp"]
    /\ UNCHANGED << opts, initResults, theTemperatureHandler, thrownAt, exitCode >>
    /\ UNCHANGED << config, controller, residual, assembly, restart, monitors,
                    stride, catalogue, scratch, heconc, reeval >>

\* main: launchPetscSolver, finalize, MPI_Finalize and the return; the
\* solver throws or not
LaunchPetscSolver(p) ==
    /\ mainPc[p] = "setUp"
    /\ IF opts.solverThrows
       THEN Caught(p, "solve")
       ELSE /\ mainPc' = [mainPc EXCEPT ![p] = "exited"]
            /\ exitCode' = [exitCode EXCEPT ![p] = ExitSuccess]
            /\ UNCHANGED thrownAt
    /\ UNCHANGED << opts, initResults, theTemperatureHandler, solverSetUp >>
    /\ UNCHANGED << config, controller, residual, assembly, restart, monitors,
                    stride, catalogue, scratch, heconc, reeval >>

\* the options that ask for a run
RunOptions ==
    [shouldRun : {TRUE}, exitCode : {ExitSuccess},
     useConstTemperatureHandlers : BOOLEAN,
     useTemperatureProfileHandlers : BOOLEAN,
     useHeatEquationHandlers : BOOLEAN,
     constTemperature : {0, 1000}, bulkTemperature : {0, 300},
     dimensionNumber : {1, 4},
     perfInitOK : BOOLEAN, materialInitOK : BOOLEAN, vizInitOK : BOOLEAN,
     solverThrows : BOOLEAN]

\* the options that ask for no run: the help (success) or a bad parameter
\* file (failure)
NoRunOptions ==
    [shouldRun : {FALSE}, exitCode : {ExitSuccess, ExitFailure},
     useConstTemperatureHandlers : {FALSE},
     useTemperatureProfileHandlers : {FALSE},
     useHeatEquationHandlers : {FALSE},
     constTemperature : {1000}, bulkTemperature : {0},
     dimensionNumber : {1},
     perfInitOK : {TRUE}, materialInitOK : {TRUE}, vizInitOK : {TRUE},
     solverThrows : {FALSE}]

InitMain ==
    /\ grid = ZeroBased(<< 0, 1, 2, 3, 4, 5, 6 >>)
    /\ initialVConc = 0
    /\ movingSurface = FALSE
    /\ bubbleBursting = TRUE
    /\ surfacePosition = 0
    /\ rightOffset = 0
    /\ sputteringYield1D = 0
    /\ \E s \in Partitions(MxOf(grid)) :
          /\ xs = [p \in Procs |-> s[p + 1][1]]
          /\ xm = [p \in Procs |-> s[p + 1][2]]
    /\ ControllerStart
    /\ ResidualStart
    /\ rhsPc = [p \in Procs |-> "unused"]
    /\ RestartStart
    /\ negThreshold1D = 0
    /\ negChecks = [p \in Procs |-> 0]
    /\ clampedOnce = << >>
    /\ printMaxClusterConc1D = [p \in Procs |-> TRUE]
    /\ mcPc = [p \in Procs |-> "idle"]
    /\ reduceBuf = [p \in Procs |-> -1]
    /\ bcastPrint = NoMsg
    /\ warnings = << >>
    /\ monitorCalls = 0
    /\ worked = [p \in Procs |-> {}]
    /\ concHistory = << >>
    /\ StrideStart
    /\ CatalogueStart
    /\ opts \in RunOptions \cup NoRunOptions
    /\ mainPc = [p \in Procs |-> "idle"]
    /\ initResults = [p \in Procs |-> << >>]
    /\ theTemperatureHandler = [p \in Procs |-> "none"]
    /\ thrownAt = [p \in Procs |-> "none"]
    /\ solverSetUp = [p \in Procs |-> FALSE]
    /\ exitCode = [p \in Procs |-> -1]
    /\ ScratchStart
    /\ HeConcStart
    /\ ReevalStart

NextMain ==
    \E p \in Procs :
        \/ MainStart(p)
        \/ InitHandlers(p)
        \/ GetHandlers(p)
        \/ SetUpSolver(p)
        \/ LaunchPetscSolver(p)

SpecMain == InitMain /\ [][NextMain]_vars

(***************************************************************************)
(* computeHeliumConc1D, the monitor of -helium_conc, and a step of the     *)
(* integrator with every monitor and the event function: after a step      *)
(* each process runs computeHeliumRetention1D, monitorMaxClusterConc1D and  *)
(* computeHeliumConc1D, in the order of their TSMonitorSet, and then the    *)
(* event function.  The concentrations handed over are zero or far above    *)
(* 1.0e-16 in the unit of either monitor.                                  *)
(***************************************************************************)
\* the helium sizes of the network: the entries of heConcLocal beyond them
\* stay 0.0
HeConcSizes == 0 .. 4

\* the contribution of grid point xi to heConcLocal: indices1D and weights1D
\* hold the He and the HeV clusters with their helium, and the super
\* clusters are spread over their bounds
HeConcLocal(p, sol, xi) ==
    [w \in HeConcSizes |->
        IF ~Owns(p, xi) THEN 0
        ELSE LET listed == {id \in GetAll("He") \cup GetAll("PSIMixed") :
                               Cluster(id).he = w}
                 supers == IF w \in SuperHeBounds THEN GetAll("PSISuper") ELSE {}
             IN (SumOver([id \in listed |-> sol[xi][id]], listed)
                 + SumOver([id \in supers |->
                              SumOver([j \in SuperVBounds |->
                                         SuperConcentration(sol[xi], id,
                                               Distance(w, SuperHeBounds),
                                               Distance(j, SuperVBounds))],
                                      SuperVBounds)],
                           supers))
                * (grid[xi + 1] - grid[xi])]

\* an MPI_Reduce that only the owner of the grid point enters
GathersIfOwner(p, xi) == Owns(p, xi)

\* MPI_Reduce(&heConcLocal[0], &heConcentrations[0], maxSize, MPI_DOUBLE,
\* MPI_SUM, 0, PETSC_COMM_WORLD) stands after the test of the owner: every
\* process enters it at every grid point
Gathers(p, xi) == TRUE

\* for (xi = surfacePos + 1; xi < Mx; xi++): the grid points at which
\* process p enters MPI_Reduce
HeConcReduces(p) ==
    SelectSeq(SortedSeq((surfacePosition + 1) .. (Mx - 1)), LAMBDA xi : Gathers(p, xi))

\* if (heConcentrations[i] > 1.0e-16)
HeConcPrinted(value) == value > 0

\* computeHeliumConc1D on a process: the loop on the full grid; MPI_Reduce
\* returns on a process other than 0 once its values are handed over, and
\* process 0 waits in the first one
HeliumConcLocal(p) ==
    /\ hcPc[p] = "called"
    /\ LET points == HeConcReduces(p)
       IN /\ hcLocal' = [hcLocal EXCEPT
                            ![p] = [n \in DOMAIN points |->
                                       [xi |-> points[n],
                                        heConcLocal |-> HeConcLocal(p, solution, points[n])]]]
          /\ IF p = 0 /\ points # << >>
             THEN /\ hcReduces' = [hcReduces EXCEPT ![p] = << points[1] >>]
                  /\ hcPc' = [hcPc EXCEPT ![p] = "reduce"]
             ELSE /\ hcReduces' = [hcReduces EXCEPT ![p] = points]
                  /\ hcPc' = [hcPc EXCEPT ![p] = "returned"]
    /\ UNCHANGED hcFile
    /\ UNCHANGED << config, controller, residual, assembly, restart, monitors,
                    stride, catalogue, program, scratch, reeval >>

\* process 0 from the first MPI_Reduce on: each MPI_Reduce returns once
\* every process has handed its values for that grid point over; the sums
\* above 1.0e-16 are written to the file
HeliumConcRoot ==
    /\ hcPc[0] = "reduce"
    /\ LET points == HeConcReduces(0)
           handed(q, n) == n \in DOMAIN hcLocal[q] /\ hcLocal[q][n].xi = points[n]
       IN /\ \A n \in DOMAIN points : \A q \in Procs : handed(q, n)
          /\ hcFile' = hcFile \cup
                {line \in
                   {[timestep |-> tsNumber, x |-> grid[points[n] + 1] - grid[1],
                     size |-> w,
                     conc |-> SumOver([q \in Procs |-> hcLocal[q][n].heConcLocal[w]],
                                      Procs)] :
                        n \in DOMAIN points, w \in HeConcSizes} :
                   HeConcPrinted(line.conc)}
          /\ hcReduces' = [hcReduces EXCEPT ![0] = points]
    /\ hcPc' = [hcPc EXCEPT ![0] = "returned"]
    /\ UNCHANGED hcLocal
    /\ UNCHANGED << config, controller, residual, assembly, restart, monitors,
                    stride, catalogue, program, scratch, reeval >>

\* a bubble with the largest cluster of the network far above 1.0e-16
BubbleVec == [HeRichVec EXCEPT ![MaxCluster] = 50]

\* the solutions the integrator hands to the monitors and to the event
\* function: nothing, interstitials at every interior point, and a bubble at
\* some depth
MonitoredSolutions(g, sp) ==
    LET mx == MxOf(g)
        interior(xi) == xi > sp /\ xi < mx - 1
    IN { [xi \in 0 .. (mx - 1) |-> ZeroVec],
         [xi \in 0 .. (mx - 1) |-> IF interior(xi) THEN IRichVec ELSE ZeroVec],
         [xi \in 0 .. (mx - 1) |-> IF xi = mx - 2 THEN BubbleVec
                                   ELSE IF interior(xi) THEN IRichVec ELSE ZeroVec] }

\* the integrator takes a step and calls the monitors on every process
MonitoredStep ==
    /\ \A p \in Procs : pc[p] = "posted"
    /\ \A p \in Procs : convergedReason[p] = "TS_CONVERGED_ITERATING"
    /\ tsNumber < MaxSteps
    /\ time' = time + 1
    /\ solution' \in MonitoredSolutions(grid, surfacePosition)
    /\ atStep' = solution'
    /\ tsNumber' = tsNumber + 1
    /\ pc' = [p \in Procs |-> "stepped"]
    /\ surfaceProc' = [p \in Procs |-> -1]
    /\ bottomProc' = [p \in Procs |-> -1]
    /\ bcastSurface' = NoMsg
    /\ bcastBottom' = NoMsg
    /\ collectives' = [p \in Procs |-> << >>]
    /\ monitorCalls' = monitorCalls + 1
    /\ concHistory' = Append(concHistory, solution')
    /\ mcPc' = [p \in Procs |-> "called"]
    /\ reduceBuf' = [p \in Procs |-> -1]
    /\ bcastPrint' = NoMsg
    /\ hcPc' = [p \in Procs |-> "called"]
    /\ hcReduces' = [p \in Procs |-> << >>]
    /\ hcLocal' = [p \in Procs |-> << >>]
    /\ UNCHANGED << config, previousTime, nInterstitial1D, previousIFlux1D,
                    nHelium1D, previousHeFlux1D, nDeuterium1D, previousDFlux1D,
                    nTritium1D, previousTFlux1D, fvalue, depthPositions1D,
                    surfaceOffset, convergedReason, surfacePos, nGridPoints,
                    calls, atEntry >>
    /\ UNCHANGED << negThreshold1D, negChecks, clampedOnce, printMaxClusterConc1D,
                    warnings, worked, hcFile >>
    /\ UNCHANGED << residual, assembly, restart, stride, catalogue, program, scratch,
                    reeval >>

\* the monitors are called on the initial solution
InitCollectives ==
    /\ grid = ZeroBased(<< 0, 1, 2, 3, 4, 5, 6 >>)
    /\ initialVConc = 0
    /\ movingSurface \in BOOLEAN
    /\ bubbleBursting \in BOOLEAN
    /\ movingSurface \/ bubbleBursting
    /\ surfacePosition \in (IF movingSurface THEN {0, 1} ELSE {0})
    /\ rightOffset \in {0, 1}
    /\ sputteringYield1D = 0
    /\ \E s \in Partitions(MxOf(grid)) :
          /\ xs = [p \in Procs |-> s[p + 1][1]]
          /\ xm = [p \in Procs |-> s[p + 1][2]]
    /\ ControllerStart
    /\ ResidualStart
    /\ rhsPc = [p \in Procs |-> "unused"]
    /\ RestartStart
    /\ negThreshold1D = 0
    /\ negChecks = [p \in Procs |-> 0]
    /\ clampedOnce = << >>
    /\ printMaxClusterConc1D = [p \in Procs |-> TRUE]
    /\ mcPc = [p \in Procs |-> "called"]
    /\ reduceBuf = [p \in Procs |-> -1]
    /\ bcastPrint = NoMsg
    /\ warnings = << >>
    /\ monitorCalls = 1
    /\ worked = [p \in Procs |-> {}]
    /\ concHistory = << solution >>
    /\ StrideStart
    /\ CatalogueStart
    /\ ProgramStart
    /\ ScratchStart
    /\ hcPc = [p \in Procs |-> "called"]
    /\ hcReduces = [p \in Procs |-> << >>]
    /\ hcLocal = [p \in Procs |-> << >>]
    /\ hcFile = {}
    /\ ReevalStart

NextCollectives ==
    \/ MonitoredStep
    \/ \E p \in Procs : RetentionLocal(p)
    \/ \E p \in Procs : RetentionFinish(p)
    \/ \E p \in Procs : pc[p] = "retDone" /\ MaxClusterLocal(p)
    \/ MaxClusterRoot
    \/ \E p \in Procs : MaxClusterBcast(p)
    \/ \E p \in Procs : mcPc[p] = "returned" /\ HeliumConcLocal(p)
    \/ HeliumConcRoot
    \/ \E p \in Procs : hcPc[p] = "returned" /\ EventLocal(p)
    \/ \E p \in Procs : EventFinish(p)
    \/ \E p \in Procs : PostEvent(p)

SpecCollectives == InitCollectives /\ [][NextCollectives]_vars

(***************************************************************************)
(* The integrator evaluates the event function again in a step: the        *)
(* processes enter eventFunction1D a second time at the same time and on   *)
(* the same solution, monitorTime not having run in between.               *)
(***************************************************************************)
Reevaluate ==
    /\ \A p \in Procs : pc[p] = "evDone"
    /\ reevaluatedAt = -1
    /\ reevaluatedAt' = tsNumber
    /\ pc' = [p \in Procs |-> "retDone"]
    /\ surfaceProc' = [p \in Procs |-> -1]
    /\ bcastSurface' = NoMsg
    /\ UNCHANGED << config, solution, time, tsNumber, previousTime,
                    nInterstitial1D, previousIFlux1D, nHelium1D,
                    previousHeFlux1D, nDeuterium1D, previousDFlux1D, nTritium1D,
                    previousTFlux1D, fvalue, depthPositions1D, bottomProc,
                    bcastBottom, surfaceOffset, convergedReason, surfacePos,
                    nGridPoints, calls, collectives, atEntry, atStep >>
    /\ UNCHANGED << residual, assembly, restart, monitors, stride, catalogue,
                    program, scratch, heconc >>

\* runs with the moving surface, with and without sputtering
InitReevaluate ==
    /\ grid \in GridChoices
    /\ initialVConc = 0
    /\ movingSurface = TRUE
    /\ bubbleBursting = FALSE
    /\ surfacePosition \in {0, 1}
    /\ rightOffset \in {0, 1}
    /\ sputteringYield1D \in SputteringYieldValues
    /\ \E s \in Partitions(MxOf(grid)) :
          /\ xs = [p \in Procs |-> s[p + 1][1]]
          /\ xm = [p \in Procs |-> s[p + 1][2]]
    /\ ControllerStart
    /\ ResidualStart
    /\ rhsPc = [p \in Procs |-> "unused"]
    /\ RestartStart
    /\ MonitorsStart

NextReevaluate ==
    \/ TSStep
    \/ \E p \in Procs : RetentionLocal(p)
    \/ \E p \in Procs : RetentionFinish(p)
    \/ \E p \in Procs : EventLocal(p)
    \/ \E p \in Procs : EventFinish(p)
    \/ Reevaluate
    \/ \E p \in Procs : PostEvent(p)

SpecReevaluate == InitReevaluate /\ [][NextReevaluate]_vars

(***************************************************************************)
(* Runs with strong sputtering: in one step the sputtered atoms take more  *)
(* from nInterstitial1D than the cells below the surface hold.             *)
(***************************************************************************)
\* sputtering yields that empty three cells of the uniform grid in one step
StrongSputteringYields == {0, 300}

InitSputtering ==
    /\ grid = ZeroBased(<< 0, 1, 2, 3, 4, 5, 6 >>)
    /\ initialVConc \in InitialVConcValues
    /\ movingSurface = TRUE
    /\ bubbleBursting = FALSE
    /\ surfacePosition \in {0, 1}
    /\ rightOffset \in {0, 1}
    /\ sputteringYield1D \in StrongSputteringYields
    /\ \E s \in Partitions(MxOf(grid)) :
          /\ xs = [p \in Procs |-> s[p + 1][1]]
          /\ xm = [p \in Procs |-> s[p + 1][2]]
    /\ ControllerStart
    /\ ResidualStart
    /\ rhsPc = [p \in Procs |-> "unused"]
    /\ RestartStart
    /\ MonitorsStart

NextSputtering ==
    \/ TSStep
    \/ \E p \in Procs : RetentionLocal(p)
    \/ \E p \in Procs : RetentionFinish(p)
    \/ \E p \in Procs : EventLocal(p)
    \/ \E p \in Procs : EventFinish(p)
    \/ \E p \in Procs : PostEvent(p)

SpecSputtering == InitSputtering /\ [][NextSputtering]_vars

(***************************************************************************)
(* Properties of updateConcentration.                                      *)
(***************************************************************************)
\* C1: on a grid point at or above the surface, or at the last grid point,
\* updateConcentration sets the row of the residual to the row of the
\* concentrations and adds no flux, diffusion, advection, trap-mutation or
\* reaction term to it
BoundaryRowsCopied ==
    \A p \in Procs :
        rhsPc[p] = "returned" =>
            \A xi \in 0 .. (Mx - 1) :
                (Owns(p, xi) /\ (xi <= surfacePosition \/ xi = Mx - 1)) =>
                    /\ \A k \in ClusterIds : updatedConcs[xi][k] = concs[xi][k]
                    /\ termCalls[xi] = << >>

\* every process has returned: the surface row and the last row hold the
\* concentrations, which differ from what an interior row would have got, and
\* the rows between them got every term
BoundaryRowsCopiedWitness ==
    /\ \A p \in Procs : rhsPc[p] = "returned"
    /\ surfacePosition >= 1
    /\ \A xi \in {surfacePosition, Mx - 1} :
          /\ incidentFluxVector[xi] > 0
          /\ concs[xi][HeliumIndex] > 0
          /\ updatedConcs[xi] = concs[xi]
          /\ updatedConcs[xi] # InteriorRow(grid, surfacePosition, xi, concs,
                                            concs[xi], incidentFluxVector,
                                            mutationRate[0])
    /\ \A xi \in (surfacePosition + 1) .. (Mx - 2) : termCalls[xi] = InteriorTerms

\* the fluxes of row xi were evaluated in the evaluation under way
FluxesEvaluated(xi) == termCalls[xi] # << >>

\* the helium clusters that fire at grid point xi
FiringAt(xi) ==
    {Mutating(xi, surfacePosition)[i].he : i \in DOMAIN Mutating(xi, surfacePosition)}

\* C11: at every grid point where computeTrapMutation ran, each helium size
\* that fires gets -k_tm * C(He_s) on its row and its product gets the same
\* amount with the other sign, so the two cancel; the row of I_1 gets minus
\* the sum of what the helium rows got; a helium size with no rule at that
\* depth leaves its row and the rows of its products as they were
TrapMutationConserves ==
    \A xi \in 0 .. (Mx - 1) :
        FluxesEvaluated(xi) =>
            LET added == mutationAdded[xi]
                m == Mutating(xi, surfacePosition)
                rate == ratesAt[xi].rate
            IN /\ \A i \in DOMAIN m :
                     /\ added[m[i].he] = -(rate * concs[xi][m[i].he])
                     /\ added[m[i].hev] = rate * concs[xi][m[i].he]
                     /\ added[m[i].he] + added[m[i].hev] = 0
               /\ added[InterstitialIndex] = -SumOver(added, GetAll("He"))
               /\ \A h \in GetAll("He") \ FiringAt(xi) :
                     /\ added[h] = 0
                     /\ \A hv \in GetAll("PSIMixed") :
                           Cluster(hv).he = Cluster(h).size => added[hv] = 0

\* both helium sizes fired on the first row below the surface and took
\* something from their rows, and on the second row He_2, which is there,
\* kept its row while He_1 fired
TrapMutationConservesWitness ==
    /\ \A p \in Procs : rhsPc[p] = "returned"
    /\ LET first == surfacePosition + 1
           second == surfacePosition + 2
       IN /\ FluxesEvaluated(first) /\ FluxesEvaluated(second)
          /\ FiringAt(first) = GetAll("He")
          /\ \A h \in GetAll("He") : mutationAdded[first][h] < 0
          /\ mutationAdded[first][InterstitialIndex]
                = -(mutationAdded[first][GetHe(1)] + mutationAdded[first][GetHe(2)])
          /\ FiringAt(second) = {GetHe(1)}
          /\ concs[second][GetHe(2)] > 0
          /\ mutationAdded[second][GetHe(2)] = 0
          /\ mutationAdded[second][GetMixed(1, 2)] > 0

\* C13: whenever the fluxes of an interior grid point are evaluated, the
\* temperature test of that grid point has run: the network's rates and the
\* trap-mutation rate are those of the temperature of the grid point, and
\* lastTemperature is that temperature; the trap-mutation rate is refreshed
\* each time the temperature of the network is set
RatesFollowTemperature ==
    /\ \A xi \in 0 .. (Mx - 1) :
          FluxesEvaluated(xi) =>
              /\ ratesAt[xi].network = temperatures[xi]
              /\ ratesAt[xi].rate = TrapMutationRate(temperatures[xi])
              /\ ratesAt[xi].last = temperatures[xi]
    /\ \A p \in Procs :
          /\ mutationRateUpdates[p] = rateUpdates[p]
          /\ rateUpdates[p] > 0 =>
                mutationRate[p] = TrapMutationRate(networkTemperature[p])

\* a process went down a temperature that falls with depth: it set the
\* temperature of its network more than once, and two of its rows were
\* evaluated with different rates
RatesFollowTemperatureWitness ==
    /\ \A p \in Procs : rhsPc[p] = "returned"
    /\ \E p \in Procs : rateUpdates[p] - rateUpdatesAtCall[p] >= 2
    /\ \E xi, xj \in 0 .. (Mx - 1) :
          /\ FluxesEvaluated(xi) /\ FluxesEvaluated(xj)
          /\ \E p \in Procs : Owns(p, xi) /\ Owns(p, xj)
          /\ ratesAt[xi].rate # ratesAt[xj].rate
          /\ ratesAt[xi].rate > 0 /\ ratesAt[xj].rate > 0

\* the temperature has been the same at every grid point in every evaluation
UniformTemperature ==
    \E t \in {temperatures[0]} :
        \A i \in DOMAIN temperatureHistory :
            \A xi \in DOMAIN temperatureHistory[i] : temperatureHistory[i][xi] = t

\* the interior grid points of process p
InteriorOf(p) == {xi \in 0 .. (Mx - 1) :
                    Owns(p, xi) /\ xi > surfacePosition /\ xi < Mx - 1}

\* the calls of network->setTemperature process p made in this evaluation
SettingsInEvaluation(p) == rateUpdates[p] - rateUpdatesAtCall[p]

\* C14: a temperature equal to lastTemperature never triggers setTemperature:
\* under a temperature uniform in space and in time a process that has
\* returned from updateConcentration has set the temperature of its network
\* once since its construction if it owns an interior grid point, in its first
\* evaluation, and never if it owns none; a later evaluation sets nothing
OneSettingPerHandler ==
    UniformTemperature =>
        \A p \in Procs :
            rhsPc[p] = "returned" =>
                /\ rateUpdates[p] = (IF InteriorOf(p) # {} THEN 1 ELSE 0)
                /\ SettingsInEvaluation(p) =
                      (IF evaluation = 1 /\ InteriorOf(p) # {} THEN 1 ELSE 0)
                /\ lastTemperature[p] =
                      (IF InteriorOf(p) # {} THEN temperatures[0] ELSE 0)

\* the second evaluation under a uniform temperature is over: a process with
\* several interior grid points set the temperature once in the first
\* evaluation and not at all in the second
OneSettingPerHandlerWitness ==
    /\ UniformTemperature
    /\ evaluation = 2
    /\ \A p \in Procs : rhsPc[p] = "returned"
    /\ \E p \in Procs :
          /\ Cardinality(InteriorOf(p)) >= 2
          /\ rateUpdates[p] = 1
          /\ SettingsInEvaluation(p) = 0

\* C14 as stated: across one residual evaluation over all grid points under a
\* temperature uniform in space and in time, setTemperature is called once
OneSettingPerEvaluation ==
    (UniformTemperature /\ \A p \in Procs : rhsPc[p] = "returned") =>
        SumOver([p \in Procs |-> SettingsInEvaluation(p)], Procs) = 1


(***************************************************************************)
(* Properties of the Jacobian passes.                                      *)
(***************************************************************************)
\* the process that owns grid point xi
Owner(xi) == CHOOSE p \in Procs : Owns(p, xi)

\* xi is an interior grid point whose owner has run computeDiagonalJacobian
DiagonalDone(xi) ==
    /\ xi > surfacePosition /\ xi < Mx - 1
    /\ jacPc[Owner(xi)] = "done"

\* C12: at a grid point, computePartialsForTrapMutation returns the number n
\* of mutating helium clusters, and for each i < n the ids (He_s, its HeV
\* product, I_1) in indices[3i .. 3i+2] and (-k_tm, +k_tm, +k_tm) in
\* val[3i .. 3i+2] with one k_tm; computeDiagonalJacobian stamps them on
\* the rows He_s, HeV, I_1 of that grid point, each in the column of He_s
PartialsStampedOnHeliumColumn ==
    \A xi \in 0 .. (Mx - 1) :
        DiagonalDone(xi) =>
            LET partials == mutationPartials[xi]
                rate == mutationRate[Owner(xi)]
                m == Mutating(xi, surfacePosition)
                Stamp(row, col, val) ==
                    [xi |-> xi, row |-> row, xj |-> xi, col |-> col, val |-> val]
            IN /\ partials.n = Cardinality(FiringAt(xi))
               /\ DOMAIN partials.indices = 0 .. (3 * partials.n - 1)
               /\ Len(partials.stamps) = 3 * partials.n
               /\ \A i \in 0 .. (partials.n - 1) :
                     LET he == partials.indices[3 * i]
                         hev == partials.indices[3 * i + 1]
                     IN /\ he = m[i + 1].he
                        /\ Cluster(hev).type = "PSIMixed"
                        /\ Cluster(hev).he = Cluster(he).size
                        /\ hev = m[i + 1].hev
                        /\ partials.indices[3 * i + 2] = InterstitialIndex
                        /\ partials.val[3 * i] = -rate
                        /\ partials.val[3 * i + 1] = rate
                        /\ partials.val[3 * i + 2] = rate
                        /\ partials.stamps[3 * i + 1] = Stamp(he, he, -rate)
                        /\ partials.stamps[3 * i + 2] = Stamp(hev, he, rate)
                        /\ partials.stamps[3 * i + 3] = Stamp(InterstitialIndex, he, rate)
                        /\ \A j \in 1 .. 3 :
                              Entry(partials.stamps[3 * i + j]) \in jacobian

\* every process has run both passes; two helium clusters mutate on the first
\* grid point below the surface and six entries were stamped there with a
\* rate that is not zero, one on the second, none on the third
PartialsStampedOnHeliumColumnWitness ==
    /\ \A p \in Procs : jacPc[p] = "done"
    /\ surfacePosition + 3 < Mx - 1
    /\ mutationPartials[surfacePosition + 1].n = 2
    /\ Len(mutationPartials[surfacePosition + 1].stamps) = 6
    /\ mutationPartials[surfacePosition + 1].val[0] < 0
    /\ mutationPartials[surfacePosition + 1].indices[3] = GetHe(2)
    /\ mutationPartials[surfacePosition + 2].n = 1
    /\ mutationPartials[surfacePosition + 3].n = 0

\* the entry lies in the block fills handed to DMDASetBlockFills
InFill(e) ==
    IF e.xj = e.xi THEN << e.row, e.col >> \in DFill
    ELSE e.xj \in {e.xi - 1, e.xi + 1} /\ << e.row, e.col >> \in OFill

ColumnsWritten(call) == {j \in HandlerDofs : call.after[j] # call.before[j]}

\* the call has kept to the columns of its reactant
WroteInside(call) == ColumnsWritten(call) \subseteq DFillMap(call.row)

\* C25: in computeDiagonalJacobian getPartialDerivatives is called for
\* every reactant at every interior grid point of the process; the values
\* handed to MatSetValuesStencil are those of the columns of
\* dFillMap[row], those columns and no others are set to zero afterwards,
\* and clusterPartials is all zero before a call as long as no earlier call
\* has written outside the columns of its reactant
ScratchZeroBeforeEachCall ==
    \A p \in Procs :
        /\ \A n \in DOMAIN partialsCalls[p] :
              LET call == partialsCalls[p][n]
              IN /\ DOMAIN call.reactingPartials = DFillMap(call.row)
                 /\ \A j \in DFillMap(call.row) :
                       call.reactingPartials[j] = call.after[j]
                 /\ \A j \in HandlerDofs :
                       call.left[j] = (IF j \in DFillMap(call.row) THEN 0
                                       ELSE call.after[j])
                 /\ (\A m \in 1 .. (n - 1) : WroteInside(partialsCalls[p][m])) =>
                        \A j \in HandlerDofs : call.before[j] = 0
        /\ jacPc[p] = "done" =>
              {<< partialsCalls[p][n].xi, partialsCalls[p][n].row >> :
                    n \in DOMAIN partialsCalls[p]}
                 = {xi \in 0 .. (Mx - 1) :
                        Owns(p, xi) /\ ~IsBoundary(xi, surfacePosition, XSize(grid))}
                   \X HandlerDofs

\* a process has gone through two interior grid points; every call kept to
\* the columns of its reactant, one of them wrote several, and the buffer
\* is all zero again
ScratchZeroBeforeEachCallWitness ==
    \E p \in Procs :
        /\ jacPc[p] = "done"
        /\ Len(partialsCalls[p]) >= 2 * Cardinality(HandlerDofs)
        /\ \A n \in DOMAIN partialsCalls[p] : WroteInside(partialsCalls[p][n])
        /\ \E n \in DOMAIN partialsCalls[p] :
              /\ n > 1
              /\ Cardinality(ColumnsWritten(partialsCalls[p][n])) > 1
        /\ \A j \in HandlerDofs : clusterPartials[p][j] = 0

(***************************************************************************)
(* Properties of the checkpoint.                                           *)
(***************************************************************************)
\* the rows initializeConcentration has filled
Initialized(xi) == \E p \in Procs : Owns(p, xi) /\ ckPc[p] \in {"initialized", "setup"}
\* the value the timestep group stores for entry n of grid point xi, if any
StoredAt(xi, n) == {pair[2] : pair \in {q \in checkpointFile.concs[xi] : q[1] = n}}

\* C16: after initializeConcentration, an owned entry (i, n) holds the value
\* the checkpoint stores for it if the run starts from a checkpoint that has
\* a pair for it; otherwise it holds initialVConc if n is the single-vacancy
\* id, that cluster exists and surfacePos < i < Mx - 1, and 0 in every other
\* case.
InitialConcentrations ==
    \A xi \in 0 .. (Mx - 1) : \A n \in Dofs :
        Initialized(xi) =>
            IF hasConcentrations /\ StoredAt(xi, n) # {}
            THEN StoredAt(xi, n) = {solution[xi][n]}
            ELSE IF /\ singleVacancyCluster # NoCluster
                    /\ n = GetV(1)
                    /\ surfacePosition < xi
                    /\ xi < Mx - 1
                 THEN solution[xi][n] = initialVConc
                 ELSE solution[xi][n] = 0

\* a run started from a checkpoint has a row with the seeded vacancies (the
\* group has no pair for them) next to an interstitial population taken
\* from the group, and the row of the surface without vacancies
InitialConcentrationsWitness ==
    /\ hasConcentrations
    /\ initialVConc = 700
    /\ \E xi \in 0 .. (Mx - 1) :
          /\ Initialized(xi)
          /\ StoredAt(xi, GetV(1)) = {}
          /\ solution[xi][GetV(1)] = 700
          /\ StoredAt(xi, 5) = {1400}
          /\ solution[xi][5] = 1400
    /\ Initialized(surfacePosition)
    /\ solution[surfacePosition][GetV(1)] = 0

\* every process has gone through initializeConcentration and the monitor
\* setup of a run started from the timestep group
Restored == hasConcentrations /\ \A p \in Procs : ckPc[p] = "setup"

\* the counters a process holds are the ones that were written
CountersRestored ==
    \A p \in Procs :
        /\ << nInterstitial1D[p], previousIFlux1D[p] >> = written.surface
        /\ BottomCounters(p) = written.bottom

\* C17: a timestep group written by startStop1D and read back by
\* initializeConcentration and the monitor setup gives at every grid point
\* the concentrations that were written, the same surface and bottom
\* counters, and the same grid.
CheckpointRoundTrip ==
    Restored =>
        /\ solution = written.solution
        /\ CountersRestored
        /\ checkpointFile.header.grid = written.grid

\* the pairs of the group, the counters and the grid come back, and yet a
\* grid point of the bulk that was written without vacancies holds
\* initialVConc of them
RestoredWithSeed ==
    /\ Restored
    /\ CountersRestored
    /\ checkpointFile.header.grid = written.grid
    /\ \A xi \in 0 .. (Mx - 1) : Pairs(written.solution[xi]) \subseteq Pairs(solution[xi])
    /\ \E xi \in 0 .. (Mx - 1) :
          /\ written.solution[xi][GetV(1)] = 0
          /\ solution[xi][GetV(1)] = 700

(***************************************************************************)
(* Properties of the order of postEventFunction1D.                         *)
(***************************************************************************)
\* process p has changed a concentration of its slab, its nInterstitial1D,
\* its surface, or has asked the solver to stop
EventStateModified(p) ==
    \/ \E xi \in 0 .. (Mx - 1) : Owns(p, xi) /\ solution[xi] # atStep[xi]
    \/ nInterstitial1D[p] # atEntry[p].n
    \/ surfacePos[p] # atEntry[p].surface
    \/ nGridPoints[p] # 0
    \/ surfaceOffset[p] # 0
    \/ convergedReason[p] # "TS_CONVERGED_ITERATING"

\* postEventFunction1D has got to the handling of the events on process p
EventHandlingEntered(p) == pc[p] \in {"posted", "thrown", "hung", "crashed"}

\* C18: in every invocation of postEventFunction1D, with or without events,
\* computeFluence and then monitorTime are called first: once the handling
\* of the events is entered, or any concentration, nInterstitial1D, the
\* surface or the converged reason has changed, both calls are behind, in
\* this order, and neither is made again.
MonitorsBeforeEvents ==
    \A p \in Procs :
        (EventHandlingEntered(p) \/ EventStateModified(p)) =>
            /\ Len(calls[p]) >= 2
            /\ calls[p][1] = "computeFluence"
            /\ calls[p][2] = "monitorTime"
            /\ \A i \in 3 .. Len(calls[p]) :
                  calls[p][i] \notin {"computeFluence", "monitorTime"}
            /\ previousTime[p] = time

\* one process has handled a burst and changed its concentrations, another
\* has called the monitors and not yet handled the events
MonitorsBeforeEventsWitness ==
    \E p, q \in Procs :
        /\ pc[p] = "posted"
        /\ \E xi \in 0 .. (Mx - 1) : Owns(p, xi) /\ solution[xi] # atStep[xi]
        /\ calls[p] = << "computeFluence", "monitorTime" >>
        /\ pc[q] = "monitored"
        /\ ~EventStateModified(q)

(***************************************************************************)
(* Properties of checkNegative1D.                                          *)
(***************************************************************************)
Magnitude(value) == IF value < 0 THEN -value ELSE value
\* the rows checkNegative1D has gone over at least n times
Checked(xi, n) == \E p \in Procs : Owns(p, xi) /\ negChecks[p] >= n

\* C19: after checkNegative1D, every owned concentration of a cluster that
\* was not zero and had a magnitude below the threshold is the threshold
\* with the sign the concentration had; a concentration that was zero or had
\* a magnitude of at least the threshold is as it was, so that no
\* concentration other than zero has a magnitude below the threshold; a
\* second call leaves the rows as the first call left them.
ClampsNonzero ==
    \A xi \in 0 .. (Mx - 1) : \A l \in ClusterIds :
        LET before == atStep[xi][l]
            now == solution[xi][l]
        IN /\ Checked(xi, 1) =>
                /\ (before > 0 /\ before < negThreshold1D) => now = negThreshold1D
                /\ (before < 0 /\ -before < negThreshold1D) => now = -negThreshold1D
                /\ (before = 0 \/ Magnitude(before) >= negThreshold1D) => now = before
                /\ now = 0 \/ Magnitude(now) >= negThreshold1D
           /\ Checked(xi, 2) => now = clampedOnce[xi][l]

\* a row that was gone over twice, with a positive and a negative
\* concentration brought to the threshold, one at the threshold and one zero
\* left alone
ClampsNonzeroWitness ==
    /\ negThreshold1D = 5
    /\ \E xi \in 0 .. (Mx - 1) :
          /\ Checked(xi, 2)
          /\ atStep[xi] = SmallVec
          /\ solution[xi][0] = 5
          /\ solution[xi][1] = -5
          /\ solution[xi][3] = -5
          /\ solution[xi][6] = 0

\* C19 as stated: every owned concentration with a magnitude below the
\* threshold is clamped to the threshold with its sign, no concentration has
\* a magnitude below the threshold afterwards, the ones at or above it are
\* unchanged, and a second call changes nothing.
ClampsBelowThreshold ==
    \A xi \in 0 .. (Mx - 1) : \A l \in ClusterIds :
        LET before == atStep[xi][l]
            now == solution[xi][l]
        IN /\ Checked(xi, 1) =>
                /\ Magnitude(before) < negThreshold1D =>
                      now = (IF before < 0 THEN -negThreshold1D ELSE negThreshold1D)
                /\ Magnitude(before) >= negThreshold1D => now = before
                /\ Magnitude(now) >= negThreshold1D
           /\ Checked(xi, 2) => now = clampedOnce[xi][l]

(***************************************************************************)
(* Properties of monitorMaxClusterConc1D.                                  *)
(***************************************************************************)
\* the largest cluster is above 1e-16 at some grid point at call k
ExceedsAt(k) == \E xi \in DOMAIN concHistory[k] : concHistory[k][xi][MaxCluster] > 10
\* the first call at which it is, 0 if there is none so far
FirstExceeding ==
    LET exceeding == {k \in 1 .. Len(concHistory) : ExceedsAt(k)}
    IN IF exceeding = {} THEN 0 ELSE CHOOSE k \in exceeding : \A j \in exceeding : k <= j
\* process p has returned from call k of the monitor
ReturnedFrom(p, k) == monitorCalls > k \/ (monitorCalls = k /\ mcPc[p] = "returned")

\* C20: the warning is printed at most once, at the first call at which the
\* largest cluster is above 1e-16 at a grid point of some process; a process
\* that has returned from that call holds printMaxClusterConc1D = false, and
\* no process looks at its grid points in a later call.
OneShotWarning ==
    /\ Len(warnings) <= 1
    /\ warnings # << >> => warnings[1] = FirstExceeding
    /\ (FirstExceeding # 0 /\ ReturnedFrom(0, FirstExceeding)) =>
          warnings = << FirstExceeding >>
    /\ \A p \in Procs :
          /\ (FirstExceeding # 0 /\ ReturnedFrom(p, FirstExceeding)) =>
                ~printMaxClusterConc1D[p]
          /\ \A k \in worked[p] : FirstExceeding = 0 \/ k <= FirstExceeding
          /\ (FirstExceeding = 0 /\ ReturnedFrom(p, monitorCalls)) =>
                /\ printMaxClusterConc1D[p]
                /\ worked[p] = 1 .. monitorCalls

\* the largest cluster was at 1e-16 in the first call, above it on the slab
\* of the last process in the second and again in the third: one warning, in
\* the second call, and the third call has returned on every process without
\* a look at the grid
OneShotWarningWitness ==
    /\ monitorCalls = 3
    /\ \A p \in Procs : mcPc[p] = "returned" /\ worked[p] = {1, 2}
    /\ warnings = << 2 >>
    /\ ~ExceedsAt(1)
    /\ \E xi \in 0 .. (Mx - 1) : concHistory[1][xi][MaxCluster] = 10
    /\ \E xi \in 0 .. (Mx - 1) :
          /\ ~Owns(0, xi)
          /\ concHistory[2][xi][MaxCluster] > 10
    /\ ExceedsAt(3)

(***************************************************************************)
(* Properties of the stride of startStop1D.                                *)
(***************************************************************************)
\* the dumps of process p after timestep 0
LaterDumps(p) == {i \in DOMAIN dumps[p] : dumps[p][i].timestep > 0}

\* C21: after timestep 0 startStop1D dumps once per stride interval of
\* simulated time: whatever the step times, no two dumps of a process fall
\* in the same stride interval.
OneDumpPerStride ==
    \A p \in Procs : \A i, j \in LaterDumps(p) :
        i # j => dumps[p][i].interval # dumps[p][j].interval

\* a step has jumped over three strides, and the two steps that follow it
\* within the stride it arrived in have dumped as well
DumpsShareInterval ==
    \E p \in Procs : \E i \in LaterDumps(p) :
        /\ i + 2 \in LaterDumps(p)
        /\ dumps[p][i].interval = dumps[p][i + 2].interval
        /\ dumps[p][i].time \div hdf5Stride1D = dumps[p][i + 2].time \div hdf5Stride1D
        /\ dumps[p][i + 2].timestep = dumps[p][i].timestep + 2

(***************************************************************************)
(* Properties of toClusterMap.                                             *)
(***************************************************************************)
\* C22: for every id of the minimal HeVI test network toClusterMap reports
\* the composition stored in the reactant at that position; the ids are
\* dense, He_1 .. He_10 at 0 .. 9, V_1 .. V_10 at 10 .. 19, I_1 .. I_10 at
\* 20 .. 29 and HeV clusters at 30 .. 74.
ClusterMapRoundTrip ==
    /\ Len(Reactants) = 75
    /\ \A i, j \in 0 .. 74 : ReactantAt(i) = ReactantAt(j) => i = j
    /\ clusterMap # << >> =>
          /\ clusterMap = ReactantAt(clusterId)
          /\ clusterId \in 0 .. 9 => clusterMap = [He |-> clusterId + 1, V |-> 0, I |-> 0]
          /\ clusterId \in 10 .. 19 => clusterMap = [He |-> 0, V |-> clusterId - 9, I |-> 0]
          /\ clusterId \in 20 .. 29 => clusterMap = [He |-> 0, V |-> 0, I |-> clusterId - 19]
          /\ clusterId \in 30 .. 74 =>
                /\ clusterMap.He >= 1
                /\ clusterMap.V >= 1
                /\ clusterMap.I = 0
                /\ clusterMap.He + clusterMap.V <= 10

\* the map of the last id of the network, an HeV cluster, was reported
ClusterMapRoundTripWitness ==
    /\ clusterId = 74
    /\ clusterMap # << >>
    /\ clusterMap.He >= 1
    /\ clusterMap.V >= 1
    /\ clusterMap = ReactantAt(74)

(***************************************************************************)
(* Properties of main and of the temperature handler factory.              *)
(***************************************************************************)
\* the initializations that process p has called and that reported a failure
ReportedFailures(p) ==
    {name \in {"perf", "material", "viz"} :
        name \in DOMAIN initResults[p] /\
        ~(CASE name = "perf" -> opts.perfInitOK
            [] name = "material" -> opts.materialInitOK
            [] name = "viz" -> opts.vizInitOK)}
    \cup (IF thrownAt[p] = "initializeTempHandler" THEN {"temp"} ELSE {})

\* C23: main returns 0 when every initialization and the solver succeeded;
\* once the initialization of the material, of the temperature, of the
\* visualization or of the performance data has reported a failure, main
\* does not set the solver up and returns a non-zero code
InitFailureStopsMain ==
    \A p \in Procs :
        /\ (mainPc[p] = "exited" /\ opts.shouldRun /\ ReportedFailures(p) = {}
                /\ thrownAt[p] = "none") => exitCode[p] = ExitSuccess
        /\ ReportedFailures(p) # {} =>
              /\ ~solverSetUp[p]
              /\ mainPc[p] = "exited" => exitCode[p] # ExitSuccess

\* the visualization reported a failure, and main has set the solver up, run
\* it and returned 0
VizFailureIgnored ==
    \E p \in Procs :
        /\ ReportedFailures(p) = {"viz"}
        /\ initResults[p].viz
        /\ solverSetUp[p]
        /\ mainPc[p] = "exited"
        /\ exitCode[p] = ExitSuccess

\* a constant temperature and a temperature profile were both asked for
Contradictory ==
    opts.useConstTemperatureHandlers /\ opts.useTemperatureProfileHandlers

\* C24: when a constant temperature and a temperature profile are both
\* asked for, no process ever holds a temperature handler and no process
\* sets the solver up; process 0 leaves main through the exception of
\* initializeTempHandler, every other process through the exception of
\* getTemperatureHandler (or of getMaterialHandler, which is called before),
\* and each returns EXIT_FAILURE
ContradictoryTemperatureFailsFast ==
    Contradictory =>
        \A p \in Procs :
            /\ theTemperatureHandler[p] = "none"
            /\ ~solverSetUp[p]
            /\ mainPc[p] \in {"idle", "mpi", "initialized", "exited"}
            /\ p = 0 => mainPc[p] # "initialized"
            /\ mainPc[p] = "exited" =>
                  /\ exitCode[p] = ExitFailure
                  /\ thrownAt[p] = (IF p = 0 THEN "initializeTempHandler"
                                    ELSE IF opts.materialInitOK
                                    THEN "getTemperatureHandler"
                                    ELSE "getMaterialHandler")

\* both were asked for and every process has left main: process 0 from
\* initializeTempHandler, the others from getTemperatureHandler
ContradictoryTemperatureFailsFastWitness ==
    /\ Contradictory
    /\ \A p \in Procs :
          /\ mainPc[p] = "exited"
          /\ thrownAt[p] = (IF p = 0 THEN "initializeTempHandler"
                            ELSE "getTemperatureHandler")
    /\ \E p \in Procs : p # 0

(***************************************************************************)
(* Properties of eventFunction1D.                                          *)
(***************************************************************************)
\* process p has evaluated the event function of this step and the
\* post-event handler has not run on it yet
Evaluated(p) == pc[p] = "evDone"

\* every process has evaluated the event function of this step
AllEvaluated == \A q \in Procs : pc[q] \in {"evDone", "posted", "thrown", "hung", "crashed"}

\* the threshold eventFunction1D compares nInterstitial1D with
Threshold == ThresholdAt(grid, initialVConc, surfacePosition + 1)

\* the switches of process p that are at zero
ZeroSwitches(p) == {i \in 0 .. 2 : fvalue[p][i] = 0}

\* C2: across one evaluation of the event function with the moving surface,
\* nInterstitial1D changes by previousIFlux1D * dt - sputteringYield1D *
\* heliumFluxAmplitude * dt with dt = time - previousTime, and previousIFlux1D
\* becomes the interstitial flux leaving the grid point surfacePos + 1
CounterClosure ==
    \A p \in Procs :
        (Evaluated(p) /\ movingSurface) =>
            LET dt == time - previousTime[p]
            IN /\ nInterstitial1D[p] - atEntry[p].n =
                      atEntry[p].flux * dt - sputteringYield1D * FluxAmplitude * dt
               /\ previousIFlux1D[p] =
                      InterstitialFlux(grid, surfacePosition + 1,
                                       atStep[surfacePosition + 1])

\* an evaluation with a flux and a sputtering yield that both count
CounterClosureWitness ==
    \E p \in Procs :
        /\ Evaluated(p) /\ movingSurface
        /\ atEntry[p].flux > 0 /\ sputteringYield1D > 0
        /\ time - previousTime[p] = 2
        /\ nInterstitial1D[p] # atEntry[p].n
        /\ previousIFlux1D[p] > 0

\* C3: after an evaluation with the moving surface, switch 0 is zero exactly
\* when nInterstitial1D > threshold, and switch 1 is zero exactly when
\* nInterstitial1D is not above the threshold and is below -threshold / 10;
\* without the moving surface both switches stay at 1
SwitchesFollowThreshold ==
    \A p \in Procs :
        Evaluated(p) =>
            IF movingSurface
            THEN /\ fvalue[p][0] = 0 <=> nInterstitial1D[p] > Threshold
                 /\ fvalue[p][1] = 0 <=> (/\ ~(nInterstitial1D[p] > Threshold)
                                          /\ 10 * nInterstitial1D[p] < -Threshold)
            ELSE fvalue[p][0] = 1 /\ fvalue[p][1] = 1

\* an evaluation where nInterstitial1D is above the threshold and below
\* -threshold / 10 at once
SwitchesFollowThresholdWitness ==
    \E p \in Procs :
        /\ Evaluated(p) /\ movingSurface
        /\ nInterstitial1D[p] > Threshold
        /\ 10 * nInterstitial1D[p] < -Threshold
        /\ fvalue[p][0] = 0 /\ fvalue[p][1] = 1

\* C3 as stated: switch 1 is zero exactly when nInterstitial1D < -threshold / 10
RetreatExactlyBelowTenth ==
    \A p \in Procs :
        (Evaluated(p) /\ movingSurface) =>
            /\ fvalue[p][0] = 0 <=> nInterstitial1D[p] > Threshold
            /\ fvalue[p][1] = 0 <=> 10 * nInterstitial1D[p] < -Threshold

\* C4: no evaluation leaves both switch 0 and switch 1 at zero, and the
\* post-event handler never reaches its throw for three events
MovingSwitchesExclusive ==
    \A p \in Procs :
        /\ ~(fvalue[p][0] = 0 /\ fvalue[p][1] = 0)
        /\ pc[p] # "thrown"
        /\ (AllEvaluated => Cardinality(EventList) # 3)

\* every process has evaluated the event function with both tests on
\* nInterstitial1D true, and one event is reported
MovingSwitchesExclusiveWitness ==
    /\ movingSurface
    /\ \A p \in Procs : Evaluated(p) /\ ZeroSwitches(p) = {0}
    /\ nInterstitial1D[0] > Threshold
    /\ 10 * nInterstitial1D[0] < -Threshold
    /\ EventList = {0}

\* C5: after an evaluation at most two of the three switches are zero, and
\* two only when one of them is the bursting switch; the post-event handler
\* is invoked with at most two events
AtMostTwoSwitches ==
    /\ \A p \in Procs :
          Evaluated(p) =>
              /\ Cardinality(ZeroSwitches(p)) <= 2
              /\ Cardinality(ZeroSwitches(p)) = 2 => 2 \in ZeroSwitches(p)
    /\ AllEvaluated =>
          /\ Cardinality(EventList) <= 2
          /\ Cardinality(EventList) = 2 => 2 \in EventList

\* the post-event handler has handled a surface that moves and a bubble that
\* bursts in the same invocation
AtMostTwoSwitchesWitness ==
    \E p \in Procs :
        /\ movingSurface /\ bubbleBursting
        /\ pc[p] = "posted"
        /\ AllEvaluated
        /\ EventList = {0, 2}
        /\ depthPositions1D[p] # << >>
        /\ nGridPoints[p] > 0

\* C5 as stated: at most one of the three switches is zero after an
\* evaluation, the post-event handler is invoked with at most one event
AtMostOneSwitch ==
    /\ \A p \in Procs : Evaluated(p) => Cardinality(ZeroSwitches(p)) <= 1
    /\ AllEvaluated => Cardinality(EventList) <= 1

(***************************************************************************)
(* Properties of postEventFunction1D.                                      *)
(***************************************************************************)
\* the post-event handler has returned on process p from an invocation with
\* the moving-up event
AdvanceHandled(p) ==
    /\ movingSurface
    /\ pc[p] = "posted"
    /\ AllEvaluated
    /\ 0 \in EventList

\* C6: after the post-event handler has handled a moving-up event that keeps
\* the surface inside the grid, the surface position of the solver handler is
\* lower than at entry by the number of thresholds subtracted
SurfacePositionFollowsAdvance ==
    \A p \in Procs :
        (AdvanceHandled(p) /\ surfacePos[p] >= 0) =>
            surfacePosition = atEntry[p].surface - nGridPoints[p]

\* the handler has subtracted a threshold and moved its own surface index,
\* the surface position of the solver handler is the one at entry
SurfacePositionStale ==
    \E p \in Procs :
        /\ AdvanceHandled(p) /\ surfacePos[p] >= 0
        /\ nGridPoints[p] >= 1
        /\ surfacePos[p] = atEntry[p].surface - nGridPoints[p]
        /\ surfacePosition = atEntry[p].surface
        /\ convergedReason[p] = "TS_CONVERGED_ITERATING"

\* C7: after the advance loop, nInterstitial1D is at most the threshold of
\* the cell at the final surface position
AdvanceEndsBelowNewThreshold ==
    \A p \in Procs :
        (AdvanceHandled(p) /\ surfacePos[p] >= 0) =>
            nInterstitial1D[p] <= ThresholdAt(grid, initialVConc, surfacePos[p] + 1)

\* the loop has ended with nInterstitial1D below the threshold of the cell it
\* started from and above the threshold of the cell it arrived at
AdvanceEndsAboveNewThreshold ==
    \E p \in Procs :
        /\ AdvanceHandled(p) /\ surfacePos[p] >= 0
        /\ nGridPoints[p] >= 1
        /\ nInterstitial1D[p] <= ThresholdAt(grid, initialVConc, atEntry[p].surface + 1)
        /\ nInterstitial1D[p] > ThresholdAt(grid, initialVConc, surfacePos[p] + 1)

\* C8: when the moving-up event drives the surface index below zero the
\* handler calls setSurfaceOffset with the number of grid points, then stops
\* the solver with the user-converged reason; when the surface stays at zero
\* or above it does neither
OverrunStopsSolver ==
    \A p \in Procs :
        AdvanceHandled(p) =>
            IF surfacePos[p] < 0
            THEN /\ calls[p] = << "computeFluence", "monitorTime",
                                  "setSurfaceOffset", "TSSetConvergedReason" >>
                 /\ surfaceOffset[p] = nGridPoints[p]
                 /\ surfaceOffset[p] = atEntry[p].surface - surfacePos[p]
                 /\ convergedReason[p] = "TS_CONVERGED_USER"
            ELSE /\ calls[p] = << "computeFluence", "monitorTime" >>
                 /\ surfaceOffset[p] = 0
                 /\ convergedReason[p] = "TS_CONVERGED_ITERATING"

\* the surface has left the grid by more than one grid point and the solver
\* is stopped
OverrunStopsSolverWitness ==
    \E p \in Procs :
        /\ AdvanceHandled(p)
        /\ surfacePos[p] < -1
        /\ surfaceOffset[p] >= 2
        /\ convergedReason[p] = "TS_CONVERGED_USER"

\* the post-event handler has returned on process p from an invocation with
\* at least one event
EventsHandled(p) ==
    /\ pc[p] = "posted"
    /\ AllEvaluated
    /\ EventList # {}

\* the grid points process p recorded as bursting
BurstingDepths(p) == {depthPositions1D[p][i] : i \in DOMAIN depthPositions1D[p]}

\* the HeV clusters with k vacancies
MixedWithV(k) == {id \in GetAll("PSIMixed") : Cluster(id).v = k}

\* the V sizes of the network
VSizes == {Cluster(id).size : id \in GetAll("V")}

\* C9: after the post-event handler has handled the bursting depths, at each
\* of them every He, D and T concentration is zero, every HeV concentration
\* and every concentration and moment of a super cluster is zero, and the
\* concentration of each V cluster is its previous value plus the previous
\* concentrations of the HeV clusters with as many vacancies plus, for the
\* super clusters, their integrated concentration at that number of vacancies
BurstingTransfersToVacancies ==
    \A p \in Procs :
        EventsHandled(p) =>
            \A xi \in BurstingDepths(p) :
                LET before == atStep[xi]
                    after == solution[xi]
                IN /\ \A id \in GetAll("He") \cup GetAll("D") \cup GetAll("T") :
                         after[id] = 0
                   /\ \A id \in GetAll("PSIMixed") : after[id] = 0
                   /\ \A id \in GetAll("PSISuper") :
                         after[id] = 0 /\ \A m \in MomentIds(id) : after[m] = 0
                   /\ \A k \in VSizes :
                         after[GetV(k)] =
                            before[GetV(k)]
                            + SumOver([id \in MixedWithV(k) |-> before[id]], MixedWithV(k))
                            + (IF k \in SuperVBounds
                               THEN SumOver([id \in GetAll("PSISuper") |->
                                               IntegratedVConcentration(before, id, k)],
                                            GetAll("PSISuper"))
                               ELSE 0)

\* a bubble has burst at a grid point that held helium, HeV clusters with one
\* and with two vacancies and a super cluster
BurstingTransfersToVacanciesWitness ==
    \E p \in Procs :
        /\ EventsHandled(p)
        /\ \E xi \in BurstingDepths(p) :
              /\ atStep[xi][GetV(2)] > 0
              /\ \A id \in GetAll("PSIMixed") \cup GetAll("PSISuper") \cup GetAll("He") :
                    atStep[xi][id] > 0
              /\ solution[xi][GetV(2)] > atStep[xi][GetV(2)]
              /\ solution[xi][GetV(1)] > atStep[xi][GetV(1)]

(***************************************************************************)
(* Properties of the replicated counters.                                  *)
(***************************************************************************)
\* process p has returned from computeHeliumRetention1D in this step
Retained(p) == pc[p] \notin {"stepped", "retReduce"}

\* C10: after eventFunction1D with the moving surface every process holds the
\* nInterstitial1D and previousIFlux1D of the process that owns the grid
\* point surfacePos + 1; after computeHeliumRetention1D with a right offset
\* of 1 every process holds the six bulk values of the process that owns the
\* grid point Mx - 2
ReplicasConsistent ==
    /\ movingSurface =>
          \A p \in Procs :
              Evaluated(p) =>
                  /\ << nInterstitial1D[p], previousIFlux1D[p] >> = bcastSurface
                  /\ Owns(SumOver(surfaceProc, Procs), surfacePosition + 1)
                  /\ \A q \in Procs :
                        Evaluated(q) =>
                            /\ nInterstitial1D[p] = nInterstitial1D[q]
                            /\ previousIFlux1D[p] = previousIFlux1D[q]
    /\ rightOffset = 1 =>
          \A p \in Procs :
              Retained(p) =>
                  /\ CountFluxData(p) = bcastBottom
                  /\ Owns(SumOver(bottomProc, Procs), Mx - 2)
                  /\ \A q \in Procs : Retained(q) => CountFluxData(p) = CountFluxData(q)

\* every process has the counters of the owners, which have counted
\* interstitials at the surface and helium at the bottom
ReplicasConsistentWitness ==
    /\ movingSurface /\ rightOffset = 1
    /\ \A p \in Procs :
          /\ Evaluated(p)
          /\ nInterstitial1D[p] > 0 /\ previousIFlux1D[p] > 0
          /\ nHelium1D[p] > 0 /\ previousHeFlux1D[p] > 0
    /\ \E p \in Procs : ~Owns(p, surfacePosition + 1) /\ ~Owns(p, Mx - 2)

(***************************************************************************)
(* Properties of the collective operations.                                *)
(***************************************************************************)
\* s is the beginning of t
StartsWith(t, s) == Len(s) <= Len(t) /\ \A n \in DOMAIN s : s[n] = t[n]

\* the collectives of computeHeliumRetention1D that process p has entered in
\* this step
RetentionCollectives(p) ==
    LET all == IF rightOffset = 1 THEN 3 ELSE 1
    IN SubSeq(collectives[p], 1, IF Len(collectives[p]) < all
                                 THEN Len(collectives[p]) ELSE all)

\* process p has returned from eventFunction1D in this step
EventReturned(p) == pc[p] \notin {"stepped", "retReduce", "retDone", "evReduce"}

\* the collectives of monitorMaxClusterConc1D that process p has entered in
\* this call
MaxClusterCollectives(p) ==
    IF mcPc[p] = "called" \/ monitorCalls \notin worked[p] THEN << >>
    ELSE IF mcPc[p] = "reduce" THEN << "MPI_Reduce" >>
    ELSE << "MPI_Reduce", "MPI_Bcast" >>

\* the collectives of computeHeliumConc1D that process p has entered in this
\* call
HeConcCollectives(p) == [n \in DOMAIN hcReduces[p] |-> "MPI_Reduce"]

\* C26: in every call of computeHeliumRetention1D, monitorMaxClusterConc1D,
\* computeHeliumConc1D and eventFunction1D, what a process has entered so
\* far is the beginning of the sequence of collectives of every process that
\* has returned from the call: the processes that have returned have
\* entered the same collectives the same number of times, and no process
\* waits in a collective that a returned process has not entered
SameCollectives ==
    \A p, q \in Procs :
        /\ Retained(q) => StartsWith(RetentionCollectives(q), RetentionCollectives(p))
        /\ EventReturned(q) => StartsWith(collectives[q], collectives[p])
        /\ mcPc[q] = "returned" =>
              StartsWith(MaxClusterCollectives(q), MaxClusterCollectives(p))
        /\ hcPc[q] = "returned" =>
              /\ StartsWith(HeConcCollectives(q), HeConcCollectives(p))
              /\ hcReduces[q] = SortedSeq((surfacePosition + 1) .. (Mx - 1))

\* every process has returned from the four functions in a step in which
\* the surface moves, the bottom is counted and one process alone holds the
\* largest cluster: each has entered six collectives in the retention and
\* the event function, two in monitorMaxClusterConc1D and one per grid point
\* in computeHeliumConc1D, and some process owns neither the surface nor
\* the bottom
SameCollectivesWitness ==
    /\ movingSurface /\ rightOffset = 1
    /\ tsNumber >= 1
    /\ \A p \in Procs :
          /\ EventReturned(p)
          /\ Len(collectives[p]) = 6
          /\ mcPc[p] = "returned"
          /\ MaxClusterCollectives(p) = << "MPI_Reduce", "MPI_Bcast" >>
          /\ hcPc[p] = "returned"
          /\ Len(HeConcCollectives(p)) >= 2
    /\ \E p, q \in Procs : MaxClusterTooBig(p, solution) /\ ~MaxClusterTooBig(q, solution)
    /\ \E p \in Procs : ~Owns(p, surfacePosition + 1) /\ ~Owns(p, Mx - 2)

(***************************************************************************)
(* Properties of the retreat of the surface.                               *)
(***************************************************************************)
\* the post-event handler has returned on process p from an invocation with
\* the moving-down event
RetreatHandled(p) ==
    /\ movingSurface
    /\ pc[p] = "posted"
    /\ AllEvaluated
    /\ 1 \in EventList
    /\ 0 \notin EventList

\* the thresholds of the cells the retreat from surface position sp by k grid
\* points has gone through
CrossedThresholds(sp, k) ==
    SumOver([j \in 1 .. k |-> ThresholdAt(grid, initialVConc, sp + 1 + j)], 1 .. k)

\* C27: after the post-event handler has handled a moving-down event, its
\* surface index is deeper than at entry by k >= 1 grid points,
\* nInterstitial1D is not negative and, the grid coordinates read being
\* those of the grid, is its value at entry plus the thresholds of the k
\* cells gone through, setSurfaceOffset was called with -k and then the
\* solver was stopped with the user-converged reason
RetreatStopsSolver ==
    \A p \in Procs :
        RetreatHandled(p) =>
            LET k == surfacePos[p] - atEntry[p].surface
            IN /\ k >= 1
               /\ nGridPoints[p] = -k
               /\ nInterstitial1D[p] >= 0
               /\ (surfacePos[p] + 2 \in DOMAIN grid =>
                      nInterstitial1D[p] =
                         bcastSurface[1] + CrossedThresholds(atEntry[p].surface, k))
               /\ surfaceOffset[p] = -k
               /\ convergedReason[p] = "TS_CONVERGED_USER"
               /\ calls[p] = << "computeFluence", "monitorTime",
                                "setSurfaceOffset", "TSSetConvergedReason" >>

\* sputtering has taken nInterstitial1D below zero at the surface: the
\* handler has gone one cell deeper inside the grid, added its threshold and
\* stopped the solver
RetreatStopsSolverWitness ==
    \E p \in Procs :
        /\ RetreatHandled(p)
        /\ bcastSurface[1] < 0
        /\ surfacePos[p] = atEntry[p].surface + 1
        /\ surfacePos[p] + 2 \in DOMAIN grid
        /\ nInterstitial1D[p] = bcastSurface[1]
                                + ThresholdAt(grid, initialVConc, surfacePos[p] + 1)
        /\ surfaceOffset[p] = -1
        /\ convergedReason[p] = "TS_CONVERGED_USER"

(***************************************************************************)
(* Properties of a second evaluation of the event function.                *)
(***************************************************************************)
\* process p has returned from the second evaluation of eventFunction1D in
\* this step
Reevaluated(p) == reevaluatedAt = tsNumber /\ pc[p] = "evDone"

\* C28: when eventFunction1D is evaluated a second time in a step, at the
\* same time and on the same solution and with previousTime as it was,
\* nInterstitial1D is after the second evaluation what it was after the
\* first
EventFunctionRepeatable ==
    \A p \in Procs : Reevaluated(p) => nInterstitial1D[p] = atEntry[p].n

\* the second evaluation has added the flux of the step to nInterstitial1D
\* once more
AccumulatedTwice ==
    \E p \in Procs :
        /\ Reevaluated(p)
        /\ time > previousTime[p]
        /\ atEntry[p].flux > 0
        /\ nInterstitial1D[p] =
              Accumulate(atEntry[p].n, atEntry[p].flux, sputteringYield1D,
                         time - previousTime[p])
        /\ nInterstitial1D[p] > atEntry[p].n

(***************************************************************************)
(* Properties of the loops of postEventFunction1D.                         *)
(***************************************************************************)
\* the retreat loop of process p has read grid[xi + 2] beyond the last entry
\* of the grid: it stopped there, or went on with what it read and returned
\* with the surface on the last cell it asked the spacing of
ReadBeyondGrid(p) ==
    /\ movingSurface
    /\ AllEvaluated
    /\ 1 \in EventList
    /\ 0 \notin EventList
    /\ \/ pc[p] = "crashed"
       \/ /\ pc[p] \in {"posted", "hung"}
          /\ nGridPoints[p] < 0
          /\ surfacePos[p] + 2 \notin DOMAIN grid

\* C29: postEventFunction1D always terminates: whatever nInterstitial1D, the
\* grid and the initial vacancy concentration, the advance loop and the
\* retreat loop exit, and the retreat loop reads no grid coordinate beyond the
\* last entry of the grid
SurfaceLoopsTerminate ==
    \A p \in Procs :
        /\ pc[p] # "hung"
        /\ ~ReadBeyondGrid(p)

\* the retreat loop has read beyond the grid with no initial vacancies
RetreatReadsBeyondGrid ==
    \E p \in Procs :
        /\ ReadBeyondGrid(p)
        /\ initialVConc = 0
        /\ atEntry[p].surface + 2 \in DOMAIN grid

(***************************************************************************)
(* Properties of the rates of the residual and of the Jacobian.            *)
(***************************************************************************)
\* the interior grid points process p has gone through in both passes
Assembled(p) ==
    IF jacPc[p] = "done" /\ rhsPc[p] = "returned"
    THEN {xi \in 0 .. (Mx - 1) :
            Owns(p, xi) /\ ~IsBoundary(xi, surfacePosition, XSize(grid))}
    ELSE {}

\* the Jacobian passes leave the cached temperature and the rates alone
JacobianKeepsRates ==
    [][(\E p \in Procs : jacPc[p] # jacPc'[p]) =>
          UNCHANGED << lastTemperature, networkTemperature, rateUpdates,
                       mutationRate, mutationRateUpdates >>]_vars

\* C30: residual and Jacobian use the same rates: at each interior grid point
\* xi the temperature cached in the network and the trap-mutation rate, with
\* which computeDiagonalJacobian evaluates the partial derivatives, are those
\* of T(xi, t) that updateConcentration used for the residual at xi, also when
\* the temperature varies from grid point to grid point
JacobianUsesResidualRates ==
    \A p \in Procs :
        \A xi \in Assembled(p) :
            /\ networkTemperature[p] = temperatures[xi]
            /\ networkTemperature[p] = ratesAt[xi].network
            /\ mutationRate[p] = ratesAt[xi].rate
            /\ mutationPartials[xi].val =
                  ComputePartialsForTrapMutation(xi, surfacePosition,
                                                 ratesAt[xi].rate).val

\* the trap-mutation partials of a grid point were computed with the rate of
\* the temperature of a deeper grid point
JacobianUsesLastPointRates ==
    \E p \in Procs :
        \E xi \in Assembled(p) :
            \E xj \in Assembled(p) :
                /\ xj > xi
                /\ temperatures[xj] # temperatures[xi]
                /\ ratesAt[xi].network = temperatures[xi]
                /\ networkTemperature[p] = temperatures[xj]
                /\ mutationPartials[xi].n > 0
                /\ mutationPartials[xi].val[0] = -TrapMutationRate(temperatures[xj])
                /\ mutationAdded[xi][mutationPartials[xi].indices[0]] =
                      -(TrapMutationRate(temperatures[xi])
                          * concs[xi][mutationPartials[xi].indices[0]])

====
